---------------------------- MODULE Spec2Model ----------------------------
(***************************************************************************)
(* A model of MaaLogAnalyzer's log reconstruction and statistics:          *)
(*   - LogParser (src/unnamed/part_002): the event buffer, getTasks()      *)
(*     (pass 1, task discovery) and getTaskNodes() (pass 2, per-task node  *)
(*     reconstruction), one action per loop iteration;                     *)
(*   - NodeStatisticsAnalyzer (src/unnamed/part_000): analyze,             *)
(*     analyzeRecognitionAction, getTopSlowest/Frequent/Failed.            *)
(*   - the statistics view (src/unnamed/part_001) and App.vue              *)
(*     (src/src/App.vue): the upload handlers, one action per run between  *)
(*     two awaits;                                                         *)
(*   - LogParser.parseMessageAndParams: the extraction of the bracketed    *)
(*     parameters of a message.                                            *)
(*                                                                         *)
(* Conventions.                                                            *)
(*   - A JS number is a record [kind, v]: kind = "num" (value v), "nan"    *)
(*     or "undefined".  A quotient of two integers is kept exact as a      *)
(*     pair num/den.                                                       *)
(*   - A field absent from an event's details is modelled by its falsy     *)
(*     value (0, "" or <<>>): the code reads details through `x || dflt`   *)
(*     or a truthiness test everywhere a reconstruction decision is taken. *)
(*   - An undefined end_time is "", an undefined _endEventIndex is 0;      *)
(*     event indices are 1-based here (JS index + 1).                      *)
(*   - Opaque blobs the code passes through verbatim (reco_details,        *)
(*     action_details, focus, node_details, hash) are left out, except     *)
(*     the two names/ids the code reads inside them.                       *)
(*   - StringPool.intern returns a string of equal content; strings are    *)
(*     values here, so interning does not show.                            *)
(***************************************************************************)
EXTENDS Integers, Sequences, FiniteSets, TLC

VARIABLES
  alphabet,              \* the events a log line may decode to (fixed per run)
  limit,                 \* the number of events the log holds at most (fixed per run)
  events,                \* LogParser.events
  hEvents,               \* history: the buffer the last getTasks() call consumed
  pc,                    \* "parse" | "pass1" | "pass2" | "done"
  i,                     \* getTasks: index of pass 1's loop
  tasks,                 \* getTasks: const tasks
  taskMap,               \* getTasks: const taskMap (its keys)
  ti,                    \* getTasks: position of `for (const task of tasks)`
  evIdx,                 \* getTaskNodes: position in this.events of the loop over taskEvents
  nodes,                 \* getTaskNodes: const nodes
  nodeIdSet,             \* getTaskNodes: const nodeIdSet
  recognitionAttempts,   \* getTaskNodes
  nestedNodes,           \* getTaskNodes
  nestedActionNodes,     \* getTaskNodes
  currentNextList,       \* getTaskNodes
  recognitionsByTaskId,  \* getTaskNodes
  actionsByTaskId,       \* getTaskNodes
  returned,              \* the value getTasks() returned
  hNodeEvent,            \* history: per task, per node, the index of the event that built it
  forest,                \* the TaskInfo[] handed to NodeStatisticsAnalyzer
  stats,                 \* the value the last analyzer call returned
  op,                    \* the last analyzer call
  callStatsMap,          \* analyze, analyzeRecognitionAction: const statsMap of the last call
  lineAlphabet,          \* the lines a log file may hold (fixed per run)
  maxLines,              \* the number of lines a log file holds at most (fixed per run)
  maxParses,             \* the number of parseFile calls made at most (fixed per run)
  chunkSize,             \* parseFile: const chunkSize (fixed per run)
  processIds,            \* LogParser.processIds
  threadIds,             \* LogParser.threadIds
  taskProcessMap,        \* LogParser.taskProcessMap
  taskThreadMap,         \* LogParser.taskThreadMap
  fpc,                   \* parseFile: "idle" | "yield" | "report" | "failed"
  content,               \* parseFile: rawLines
  onProgress,            \* parseFile: whether an onProgress callback was passed
  startIdx,              \* parseFile: startIdx
  lineNum,               \* parseFile: the lines the loop over lineNum has passed
  fEvents,               \* parseFile: const events
  reports,               \* history: the values onProgress was called with
  parses,                \* history: the number of parseFile calls made
  calls,                 \* history: the getTasks() calls made since the buffer was filled
  view,                  \* the statistics view: its refs and the position of each handler call
  app,                   \* App.vue: its refs and the locals of each processLogContent call
  scan                   \* parseMessageAndParams: message, i, extractedParams and their spans

locals == <<nodes, nodeIdSet, recognitionAttempts, nestedNodes, nestedActionNodes,
            currentNextList, recognitionsByTaskId, actionsByTaskId>>
statVars == <<forest, stats, op, callStatsMap>>
fileConfig == <<lineAlphabet, maxLines, maxParses, chunkSize>>
fileState == <<processIds, threadIds, taskProcessMap, taskThreadMap, fpc, content, onProgress,
               startIdx, lineNum, fEvents, reports, parses>>
fileVars == <<lineAlphabet, maxLines, maxParses, chunkSize, processIds, threadIds, taskProcessMap,
              taskThreadMap, fpc, content, onProgress, startIdx, lineNum, fEvents, reports,
              parses, calls, view, app, scan>>
vars == <<alphabet, limit, events, hEvents, pc, i, tasks, taskMap, ti, evIdx, locals, returned,
          hNodeEvent, statVars, fileVars>>

-----------------------------------------------------------------------------
(* Bounds *)
\* the events of a log
MaxEvents == 5
\* the lines of a log file
MaxLines == 3
MaxCalls == 2
MaxOverlap == 2
MaxMessage == 5
MaxUploads == 3
\* the tasks of a forest handed to the analyzer
MaxStatTasks == 2
\* the nodes of such a forest, over all its tasks
MaxStatNodes == 2
\* the recognition attempts of such a forest, over all its nodes
MaxStatAttempts == 2
\* the nodes of a forest the success rate is looked at with
MaxRateNodes == 3

-----------------------------------------------------------------------------
(* JS numbers and dates *)

Num(v) == [kind |-> "num", v |-> v]
NaN == [kind |-> "nan", v |-> 0]
Undefined == [kind |-> "undefined", v |-> 0]
IsNum(x) == x.kind = "num"

\* a - b on JS numbers
Minus(a, b) == IF IsNum(a) /\ IsNum(b) THEN Num(a.v - b.v) ELSE NaN
\* a + b on JS numbers
Plus(a, b) == IF IsNum(a) /\ IsNum(b) THEN Num(a.v + b.v) ELSE NaN
\* comparisons: any comparison with NaN is false
Lt(a, b) == IsNum(a) /\ IsNum(b) /\ a.v < b.v
Gt(a, b) == IsNum(a) /\ IsNum(b) /\ a.v > b.v
Ge(a, b) == IsNum(a) /\ IsNum(b) /\ a.v >= b.v

T0 == "1970-01-01T00:00:00.000Z"
T1 == "1970-01-01T00:00:00.001Z"
TH == "1970-01-01T01:00:00.000Z"
TH1 == "1970-01-01T01:00:00.001Z"
TBad == "garbled"

\* new Date(ts).getTime(): milliseconds since the epoch, NaN for an unparsable string
DateGetTime(ts) ==
  CASE ts = T0 -> Num(0)
    [] ts = T1 -> Num(1)
    [] ts = TH -> Num(3600000)
    [] ts = TH1 -> Num(3600001)
    [] OTHER -> NaN

-----------------------------------------------------------------------------
(* Events *)

NoDetails ==
  [task_id |-> 0, uuid |-> "", entry |-> "", node_id |-> 0, name |-> "",
   node_details_name |-> "", reco_id |-> 0, reco_details_reco_id |-> 0,
   action_id |-> 0, action_details_action_id |-> 0, list |-> <<>>]

Ev(message, timestamp, details) ==
  [message |-> message, timestamp |-> timestamp, details |-> details]

Truthy(n) == n # 0
\* uuid && uuid.trim() !== ''
NonBlank(uuid) == uuid \notin {"", " ", "  "}

TaskStarting(taskId, uuid, entry, ts) ==
  Ev("Tasker.Task.Starting", ts, [NoDetails EXCEPT !.task_id = taskId, !.uuid = uuid, !.entry = entry])
TaskSucceeded(taskId, uuid, ts) ==
  Ev("Tasker.Task.Succeeded", ts, [NoDetails EXCEPT !.task_id = taskId, !.uuid = uuid])
TaskFailed(taskId, uuid, ts) ==
  Ev("Tasker.Task.Failed", ts, [NoDetails EXCEPT !.task_id = taskId, !.uuid = uuid])
PipelineNode(result, taskId, nodeId, name, ts) ==
  Ev("Node.PipelineNode." \o result, ts, [NoDetails EXCEPT !.task_id = taskId, !.node_id = nodeId, !.name = name])
Recognition(result, taskId, recoId, name, ts) ==
  Ev("Node.Recognition." \o result, ts, [NoDetails EXCEPT !.task_id = taskId, !.reco_id = recoId, !.name = name])
RecognitionNode(result, taskId, nodeId, name, ts) ==
  Ev("Node.RecognitionNode." \o result, ts, [NoDetails EXCEPT !.task_id = taskId, !.node_id = nodeId, !.name = name])
Action(result, taskId, actionId, name, ts) ==
  Ev("Node.Action." \o result, ts, [NoDetails EXCEPT !.task_id = taskId, !.action_id = actionId, !.name = name])
ActionNode(result, taskId, nodeId, name, ts) ==
  Ev("Node.ActionNode." \o result, ts, [NoDetails EXCEPT !.task_id = taskId, !.node_id = nodeId, !.name = name])
NextItem(name, anchor, jumpBack) == [name |-> name, anchor |-> anchor, jump_back |-> jumpBack]
NextListStarting(taskId, list, ts) ==
  Ev("Node.NextList.Starting", ts, [NoDetails EXCEPT !.task_id = taskId, !.list = list])

-----------------------------------------------------------------------------
(* LogParser.getTasks, pass 1: task discovery *)

\* faulty variant of TaskKey: the uuid is left out of the key
TaskKeyIdOnly(uuid, taskId) == "_" \o ToString(taskId)
\* `${uuid}_${taskId}`
TaskKey(uuid, taskId) == uuid \o "_" \o ToString(taskId)

\* the task object built for a Tasker.Task.Starting event
NewTask(event, idx) ==
  [task_id |-> event.details.task_id,
   entry |-> event.details.entry,
   uuid |-> event.details.uuid,
   start_time |-> event.timestamp,
   end_time |-> "",
   status |-> "running",
   nodes |-> <<>>,
   duration |-> Undefined,
   startEventIndex |-> idx,
   endEventIndex |-> 0]

\* faulty variant of MatchedTask: a task that has ended still matches
MatchedTaskEnded(tsks, details) ==
  LET S == {x \in 1..Len(tsks) :
              IF NonBlank(details.uuid)
                THEN tsks[x].uuid = details.uuid
                ELSE tsks[x].task_id = details.task_id}
  IN IF S = {} THEN 0 ELSE CHOOSE x \in S : \A y \in S : x <= y

\* the task a Tasker.Task.Succeeded/Failed event closes (its index, 0 if none):
\* tasks.find is the first task, in creation order, that is open and matches
MatchedTask(tsks, details) ==
  LET S == {x \in 1..Len(tsks) :
              /\ IF NonBlank(details.uuid)
                   THEN tsks[x].uuid = details.uuid
                   ELSE tsks[x].task_id = details.task_id
              /\ tsks[x].end_time = ""}
  IN IF S = {} THEN 0 ELSE CHOOSE x \in S : \A y \in S : x <= y

\* faulty variant of ClosedTask: the index of the close event is not recorded
ClosedTaskNoIndex(t, event, idx) ==
  LET c == [t EXCEPT !.status = IF event.message = "Tasker.Task.Succeeded" THEN "succeeded" ELSE "failed",
                     !.end_time = event.timestamp]
  IN IF c.start_time # "" /\ c.end_time # ""
       THEN [c EXCEPT !.duration = Minus(DateGetTime(c.end_time), DateGetTime(c.start_time))]
       ELSE c
\* the matched task after the close event at index idx
ClosedTask(t, event, idx) ==
  LET c == [t EXCEPT !.status = IF event.message = "Tasker.Task.Succeeded" THEN "succeeded" ELSE "failed",
                     !.end_time = event.timestamp,
                     !.endEventIndex = idx]
  IN IF c.start_time # "" /\ c.end_time # ""
       THEN [c EXCEPT !.duration = Minus(DateGetTime(c.end_time), DateGetTime(c.start_time))]
       ELSE c

\* faulty variant of CreatesTask: taskMap is not consulted
CreatesTaskNoDedup(map, details) == Truthy(details.task_id)
\* whether a Tasker.Task.Starting event creates a task
CreatesTask(map, details) ==
  Truthy(details.task_id) /\ TaskKey(details.uuid, details.task_id) \notin map

-----------------------------------------------------------------------------
(* LogParser.getTaskNodes, pass 2: the body of the loop over taskEvents *)

\* Map.get(key) || []
MapGet(m, key) == IF key \in DOMAIN m THEN m[key] ELSE <<>>
\* faulty variant of MapDelete: the child's entry stays
MapDeleteForgotten(m, key) == [x \in DOMAIN m |-> m[x]]
\* Map.delete(key)
MapDelete(m, key) == [x \in DOMAIN m \ {key} |-> m[x]]
\* faulty variant of MapPush: the record is put in front of the child's list
MapPushFront(m, key, v) ==
  [x \in DOMAIN m \cup {key} |-> IF x = key THEN <<v>> \o MapGet(m, key) ELSE m[x]]
\* if (!m.has(key)) m.set(key, []); m.get(key).push(v)
MapPush(m, key, v) ==
  [x \in DOMAIN m \cup {key} |-> IF x = key THEN Append(MapGet(m, key), v) ELSE m[x]]
EmptyMap == <<>>

\* 'success' | 'failed' from the event's message
StatusOf(message, succeeded) == IF message = succeeded THEN "success" ELSE "failed"

\* faulty variant of SliceEnd: the slice always runs to the end of the buffer
SliceEndWhole(task, evs) == Len(evs)
\* taskEndIndex = task._endEventIndex ?? this.events.length - 1
SliceEnd(task, evs) == IF task.endEventIndex = 0 THEN Len(evs) ELSE task.endEventIndex

\* the summary of a completed nested recognition sub-task
NestedNode(event, nestedRecognitions) ==
  [reco_id |-> IF Truthy(event.details.reco_details_reco_id)
                 THEN event.details.reco_details_reco_id ELSE event.details.node_id,
   name |-> event.details.name,
   timestamp |-> event.timestamp,
   status |-> StatusOf(event.message, "Node.RecognitionNode.Succeeded"),
   nested_nodes |-> nestedRecognitions]

\* the summary of a completed nested action sub-task
NestedActionNode(event, nestedActions) ==
  [action_id |-> IF Truthy(event.details.action_details_action_id)
                   THEN event.details.action_details_action_id ELSE event.details.node_id,
   name |-> event.details.name,
   timestamp |-> event.timestamp,
   status |-> StatusOf(event.message, "Node.ActionNode.Succeeded"),
   nested_actions |-> nestedActions]

\* a recognition attempt of the task itself, carrying a copy of nestedNodes
OwnAttempt(event, nested) ==
  [reco_id |-> event.details.reco_id,
   name |-> event.details.name,
   timestamp |-> event.timestamp,
   status |-> StatusOf(event.message, "Node.Recognition.Succeeded"),
   nested_nodes |-> nested]

\* a recognition record of a child task (no nested_nodes)
ChildAttempt(event) ==
  [reco_id |-> event.details.reco_id,
   name |-> event.details.name,
   timestamp |-> event.timestamp,
   status |-> StatusOf(event.message, "Node.Recognition.Succeeded")]

\* an action record of a child task
ChildAction(event) ==
  [action_id |-> event.details.action_id,
   name |-> event.details.name,
   timestamp |-> event.timestamp,
   status |-> StatusOf(event.message, "Node.Action.Succeeded")]

\* currentNextList.map(item => ({name, anchor, jump_back}))
MapNextList(list) ==
  [x \in 1..Len(list) |-> [name |-> list[x].name, anchor |-> list[x].anchor,
                           jump_back |-> list[x].jump_back]]

\* faulty variant of NodeName: the fallback to details.name is missing
NodeNameNoFallback(details) == details.node_details_name
\* details.node_details?.name || details.name || ''
NodeName(details) ==
  IF details.node_details_name # "" THEN details.node_details_name ELSE details.name

\* the NodeInfo built for a Node.PipelineNode.Succeeded/Failed event
NewNode(event, task, attempts, nextList, actionNodes, recoNodes) ==
  [node_id |-> event.details.node_id,
   name |-> NodeName(event.details),
   timestamp |-> event.timestamp,
   status |-> StatusOf(event.message, "Node.PipelineNode.Succeeded"),
   task_id |-> task.task_id,
   next_list |-> MapNextList(nextList),
   recognition_attempts |-> attempts,
   nested_action_nodes |-> actionNodes,
   nested_recognition_in_action |-> recoNodes]

\* faulty variant of CreatesNode: the dedup set is not consulted
CreatesNodeNoDedup(idSet, details) == Truthy(details.node_id)
\* nodeId && !nodeIdSet.has(nodeId)
CreatesNode(idSet, details) == Truthy(details.node_id) /\ details.node_id \notin idSet

\* faulty variant of PushNode: the node is put in front (unshift)
PushNodeFront(ns, node) == <<node>> \o ns
\* nodes.push(node)
PushNode(ns, node) == Append(ns, node)

\* faulty variant of AddNodeId: the id is not recorded
AddNodeIdForgotten(idSet, nodeId) == idSet
\* nodeIdSet.add(nodeId)
AddNodeId(idSet, nodeId) == idSet \cup {nodeId}

\* faulty variant of Truncated: the array keeps its elements
NotTruncated(list) == <<>> \o list
\* array.length = 0, after a task-scoped Node.PipelineNode completion event
Truncated(list) == <<>>

\* faulty variant of NestedTaken: nestedNodes keeps the summaries the attempt copied
NestedKept(list) == <<>> \o list
\* nestedNodes.length = 0, once the own-task attempt carries its copy
NestedTaken(list) == <<>>

RecognitionNodeMsgs == {"Node.RecognitionNode.Succeeded", "Node.RecognitionNode.Failed"}
ActionNodeMsgs == {"Node.ActionNode.Succeeded", "Node.ActionNode.Failed"}
RecognitionMsgs == {"Node.Recognition.Succeeded", "Node.Recognition.Failed"}
ActionMsgs == {"Node.Action.Succeeded", "Node.Action.Failed"}
PipelineNodeMsgs == {"Node.PipelineNode.Succeeded", "Node.PipelineNode.Failed"}
TaskEndMsgs == {"Tasker.Task.Succeeded", "Tasker.Task.Failed"}

-----------------------------------------------------------------------------
(* LogParser.parseFile: lines, parseLine, parseEventNotification *)

\* const chunkSize = 1000
ChunkSize == 1000

\* A raw line, by what decoding makes of it.  kind is "blank" (empty after trim),
\* "nomatch" (not of the bracketed grammar), "plain" (of the grammar, without the
\* !!!OnEventNotify!!! marker) or "notify" (with the marker); msg is params['msg'] ("" when
\* absent), hasDetails whether params['details'] is there, details its value.
Line(kind, processId, threadId, msg, hasDetails, timestamp, details) ==
  [kind |-> kind, processId |-> processId, threadId |-> threadId, msg |-> msg,
   hasDetails |-> hasDetails, timestamp |-> timestamp, details |-> details]

BlankLine == Line("blank", "", "", "", FALSE, "", NoDetails)
NoMatchLine == Line("nomatch", "", "", "", FALSE, "", NoDetails)
PlainLine(processId, threadId) == Line("plain", processId, threadId, "", FALSE, T0, NoDetails)
\* a notification line carrying event
NotifyLine(processId, threadId, event) ==
  Line("notify", processId, threadId, event.message, TRUE, event.timestamp, event.details)
\* a notification line with a msg and no details parameter
NotifyNoDetails(processId, threadId, msg, timestamp) ==
  Line("notify", processId, threadId, msg, FALSE, timestamp, NoDetails)
\* a notification line without msg parameter
NotifyNoMsg(processId, threadId) == Line("notify", processId, threadId, "", TRUE, T0, NoDetails)

\* the parser's fields and parseFile's events, as the loop over the lines updates them;
\* threw: an exception left the loop
ParseState(evs, pids, tids, pmap, tmap) ==
  [events |-> evs, processIds |-> pids, threadIds |-> tids, taskProcessMap |-> pmap,
   taskThreadMap |-> tmap, threw |-> FALSE]

\* faulty variant of MapSetIfAbsent: a later value replaces the first
MapSetAlways(m, key, v) == [x \in DOMAIN m \cup {key} |-> IF x = key THEN v ELSE m[x]]
\* if (!m.has(key)) m.set(key, v)
MapSetIfAbsent(m, key, v) ==
  IF key \in DOMAIN m THEN m ELSE [x \in DOMAIN m \cup {key} |-> IF x = key THEN v ELSE m[x]]

\* parseLine: null ("nomatch") or the LogLine, with the ids collected
parseLine(st, line) ==
  IF line.kind = "nomatch" THEN st
  ELSE [st EXCEPT !.processIds = @ \cup {line.processId},
                  !.threadIds = @ \cup {line.threadId}]

\* parseEventNotification's result: "null", "throw" (details.task_id read on undefined)
\* or "event"
NotificationResult(line) ==
  IF line.msg = "" THEN "null"
  ELSE IF line.msg = "Tasker.Task.Starting" /\ ~line.hasDetails THEN "throw"
  ELSE "event"

\* whether parseEventNotification records the owner of the line's task
RecordsOwner(line) ==
  /\ NotificationResult(line) = "event"
  /\ line.msg = "Tasker.Task.Starting"
  /\ Truthy(line.details.task_id)

\* the EventNotification parseEventNotification returns (details || {})
EventOf(line) == Ev(line.msg, line.timestamp, line.details)

\* parseEventNotification: the owner bookkeeping
parseEventNotification(st, line) ==
  IF RecordsOwner(line)
    THEN [st EXCEPT !.taskProcessMap = MapSetIfAbsent(@, line.details.task_id, line.processId),
                    !.taskThreadMap = MapSetIfAbsent(@, line.details.task_id, line.threadId)]
    ELSE st

\* faulty variant of EscapesTry: the loop body has no try/catch
EscapesNoTry(thrown) == thrown
\* whether an exception thrown in the loop body leaves it: try { ... } catch (e) { warn }
EscapesTry(thrown) == FALSE

\* the body of the loop over lineNum
LineStep(st, line) ==
  IF line.kind = "blank" THEN st
  ELSE LET parsed == parseLine(st, line)
       IN IF line.kind # "notify" THEN parsed
          ELSE CASE NotificationResult(line) = "null" -> parsed
                 [] NotificationResult(line) = "throw" ->
                      [parsed EXCEPT !.threw = EscapesTry(TRUE)]
                 [] OTHER ->
                      [parseEventNotification(parsed, line)
                         EXCEPT !.events = Append(@, EventOf(line))]

\* faulty variant of EndIdx: the end of the chunk is not capped by the number of lines
EndIdxNoMin(start, size, totalLines) == start + size
\* const endIdx = Math.min(startIdx + chunkSize, totalLines)
EndIdx(start, size, totalLines) ==
  IF start + size < totalLines THEN start + size ELSE totalLines

\* faulty variant of FirstLine: the chunk starts at the last line of the chunk before
FirstLineOff(start) == IF start = 0 THEN 1 ELSE start
\* for (let lineNum = startIdx + 1; ...
FirstLine(start) == start + 1

\* for (lineNum = first; lineNum <= last; lineNum++): the lines first..last in order,
\* until an exception leaves the loop
RECURSIVE LinesLoop(_, _, _, _)
LinesLoop(st, rawLines, first, last) ==
  IF first > last \/ st.threw THEN st
  ELSE LinesLoop(LineStep(st, rawLines[first]), rawLines, first + 1, last)

\* the k for which the double nearest (2k + 1) / 200, times 100, is a double below k + 1/2
RoundedDown == {14, 28, 56, 57}

\* Math.round((endIdx / totalLines) * 100), in IEEE 754 doubles.  The quotient and the
\* product are each off by a rounding error far below 1 / (2 * totalLines), so the result is
\* the exact value rounded half up, except where the exact value is k + 1/2 and the double
\* falls below it: 23000 of 40000 lines give 57.49999999999999 and 57.
Percentage(endIdx, totalLines) ==
  LET exact == (200 * endIdx + totalLines) \div (2 * totalLines)
  IN IF \E k \in RoundedDown : 200 * endIdx = (2 * k + 1) * totalLines
       THEN exact - 1
       ELSE exact

\* the ParseProgress handed to onProgress
Progress(endIdx, totalLines) ==
  [current |-> endIdx, total |-> totalLines, percentage |-> Percentage(endIdx, totalLines)]

\* the ids the sample logs carry, in the order Array.prototype.sort() gives strings
IdRank(id) ==
  CASE id = "Px1" -> 1 [] id = "Px2" -> 2 [] id = "Tx1" -> 3 [] id = "Tx2" -> 4 [] OTHER -> 5

\* Array.from(set).sort()
RECURSIVE SortedIds(_)
SortedIds(ids) ==
  IF ids = {} THEN <<>>
  ELSE LET least == CHOOSE x \in ids : \A y \in ids : IdRank(x) <= IdRank(y)
       IN <<least>> \o SortedIds(ids \ {least})

MapValues(m) == {m[x] : x \in DOMAIN m}

\* faulty variant of Cleared: the map keeps its entries
NotCleared(m) == m
\* Map.clear()
Cleared(m) == EmptyMap

\* LogParser.getProcessIds()
getProcessIds == SortedIds(MapValues(taskProcessMap))
\* LogParser.getThreadIds()
getThreadIds == SortedIds(MapValues(taskThreadMap))
\* LogParser.getTaskProcessId(taskId); "undefined" stands for undefined
getTaskProcessId(taskId) ==
  IF taskId \in DOMAIN taskProcessMap THEN taskProcessMap[taskId] ELSE "undefined"
\* LogParser.getTaskThreadId(taskId)
getTaskThreadId(taskId) ==
  IF taskId \in DOMAIN taskThreadMap THEN taskThreadMap[taskId] ELSE "undefined"

-----------------------------------------------------------------------------
(* Actions *)

\* the line that carries an event: the logs the buffer is filled from event by event are
\* written by one process and one thread
LineOf(event) == NotifyLine("Px1", "Tx1", event)

\* the parser after parseFile's loop passed the lines that carry evs, from cleared collections
AfterLines(evs) ==
  LinesLoop(ParseState(<<>>, {}, {}, EmptyMap, EmptyMap),
            [k \in 1..Len(evs) |-> LineOf(evs[k])], 1, Len(evs))

\* parseFile's loop body on one more line, a line that carries an event notification:
\* parseLine collects its ids, parseEventNotification records the owner of a started task
\* and the event is pushed onto the buffer
ParseEvent ==
  /\ pc = "parse"
  /\ Len(events) < limit
  /\ \E e \in alphabet :
       LET st == LineStep(ParseState(events, processIds, threadIds, taskProcessMap,
                                     taskThreadMap),
                          LineOf(e))
       IN /\ events' = st.events
          /\ processIds' = st.processIds
          /\ threadIds' = st.threadIds
          /\ taskProcessMap' = st.taskProcessMap
          /\ taskThreadMap' = st.taskThreadMap
  /\ UNCHANGED <<alphabet, limit, hEvents, pc, i, tasks, taskMap, ti, evIdx, locals, returned,
                 hNodeEvent, statVars, fileConfig, fpc, content, onProgress, startIdx, lineNum,
                 fEvents, reports, parses, calls, view, app, scan>>

\* getTasks() is called: tasks and taskMap start empty
GetTasks ==
  /\ pc = "parse"
  /\ pc' = "pass1"
  /\ i' = 1
  /\ tasks' = <<>>
  /\ taskMap' = {}
  /\ hEvents' = events
  /\ calls' = calls + 1
  /\ UNCHANGED <<alphabet, limit, events, ti, evIdx, locals, returned, hNodeEvent, statVars,
                 fileConfig, fileState, view, app, scan>>

\* the body of pass 1's loop over this.events: tasks and taskMap after the event at index idx
Pass1Body(tsks, map, event, idx) ==
  LET m == MatchedTask(tsks, event.details)
  IN CASE event.message = "Tasker.Task.Starting" /\ CreatesTask(map, event.details) ->
            [tasks |-> Append(tsks, NewTask(event, idx)),
             taskMap |-> map \cup {TaskKey(event.details.uuid, event.details.task_id)}]
       [] event.message \in TaskEndMsgs /\ m # 0 ->
            [tasks |-> [tsks EXCEPT ![m] = ClosedTask(tsks[m], event, idx)], taskMap |-> map]
       [] OTHER -> [tasks |-> tsks, taskMap |-> map]

\* one iteration of pass 1's loop over this.events
Pass1Step ==
  /\ pc = "pass1"
  /\ i <= Len(events)
  /\ tasks' = Pass1Body(tasks, taskMap, events[i], i).tasks
  /\ taskMap' = Pass1Body(tasks, taskMap, events[i], i).taskMap
  /\ i' = i + 1
  /\ UNCHANGED <<alphabet, limit, events, hEvents, pc, ti, evIdx, locals, returned, hNodeEvent, statVars,
                 fileVars>>

\* pass 1 over the first upTo events of evs
RECURSIVE Pass1UpTo(_, _)
Pass1UpTo(evs, upTo) ==
  IF upTo = 0 THEN [tasks |-> <<>>, taskMap |-> {}]
  ELSE Pass1Body(Pass1UpTo(evs, upTo - 1).tasks, Pass1UpTo(evs, upTo - 1).taskMap,
                 evs[upTo], upTo)

\* the locals of a fresh getTaskNodes(task) call
FreshLocals ==
  /\ nodes' = <<>>
  /\ nodeIdSet' = {}
  /\ recognitionAttempts' = <<>>
  /\ nestedNodes' = <<>>
  /\ nestedActionNodes' = <<>>
  /\ currentNextList' = <<>>
  /\ recognitionsByTaskId' = EmptyMap
  /\ actionsByTaskId' = EmptyMap

\* pass 1's loop ends; `for (const task of tasks)` calls getTaskNodes on the first task
Pass1End ==
  /\ pc = "pass1"
  /\ i > Len(events)
  /\ pc' = "pass2"
  /\ ti' = 1
  /\ evIdx' = IF tasks = <<>> THEN 0 ELSE tasks[1].startEventIndex
  /\ FreshLocals
  /\ hNodeEvent' = [t \in 1..Len(tasks) |-> <<>>]
  /\ UNCHANGED <<alphabet, limit, events, hEvents, i, tasks, taskMap, returned, statVars,
                 fileVars>>

\* one iteration of getTaskNodes' loop over taskEvents
NodeStep ==
  /\ pc = "pass2"
  /\ ti <= Len(tasks)
  /\ evIdx <= SliceEnd(tasks[ti], events)
  /\ LET event == events[evIdx]
         message == event.message
         details == event.details
         task == tasks[ti]
         taskId == details.task_id
     IN CASE message = "Node.NextList.Starting" /\ taskId = task.task_id ->
               /\ currentNextList' = details.list
               /\ UNCHANGED <<nodes, nodeIdSet, recognitionAttempts, nestedNodes, nestedActionNodes,
                              recognitionsByTaskId, actionsByTaskId, hNodeEvent>>
          [] message \in RecognitionNodeMsgs /\ taskId # task.task_id ->
               /\ nestedNodes' = Append(nestedNodes,
                                        NestedNode(event, MapGet(recognitionsByTaskId, taskId)))
               /\ recognitionsByTaskId' = MapDelete(recognitionsByTaskId, taskId)
               /\ UNCHANGED <<nodes, nodeIdSet, recognitionAttempts, nestedActionNodes,
                              currentNextList, actionsByTaskId, hNodeEvent>>
          [] message \in ActionNodeMsgs /\ taskId # task.task_id ->
               /\ nestedActionNodes' = Append(nestedActionNodes,
                                              NestedActionNode(event, MapGet(actionsByTaskId, taskId)))
               /\ actionsByTaskId' = MapDelete(actionsByTaskId, taskId)
               /\ UNCHANGED <<nodes, nodeIdSet, recognitionAttempts, nestedNodes,
                              currentNextList, recognitionsByTaskId, hNodeEvent>>
          [] message \in RecognitionMsgs /\ taskId = task.task_id ->
               /\ recognitionAttempts' = Append(recognitionAttempts, OwnAttempt(event, nestedNodes))
               /\ nestedNodes' = NestedTaken(nestedNodes)
               /\ UNCHANGED <<nodes, nodeIdSet, nestedActionNodes, currentNextList,
                              recognitionsByTaskId, actionsByTaskId, hNodeEvent>>
          [] message \in RecognitionMsgs /\ taskId # task.task_id ->
               /\ recognitionsByTaskId' = MapPush(recognitionsByTaskId, taskId, ChildAttempt(event))
               /\ UNCHANGED <<nodes, nodeIdSet, recognitionAttempts, nestedNodes, nestedActionNodes,
                              currentNextList, actionsByTaskId, hNodeEvent>>
          [] message \in ActionMsgs /\ taskId # task.task_id ->
               /\ actionsByTaskId' = MapPush(actionsByTaskId, taskId, ChildAction(event))
               /\ UNCHANGED <<nodes, nodeIdSet, recognitionAttempts, nestedNodes, nestedActionNodes,
                              currentNextList, recognitionsByTaskId, hNodeEvent>>
          [] message \in PipelineNodeMsgs /\ taskId = task.task_id ->
               /\ IF CreatesNode(nodeIdSet, details)
                    THEN /\ nodes' = PushNode(nodes, NewNode(event, task, recognitionAttempts,
                                                             currentNextList, nestedActionNodes,
                                                             nestedNodes))
                         /\ nodeIdSet' = AddNodeId(nodeIdSet, details.node_id)
                         /\ hNodeEvent' = [hNodeEvent EXCEPT ![ti] = Append(@, evIdx)]
                    ELSE UNCHANGED <<nodes, nodeIdSet, hNodeEvent>>
               /\ currentNextList' = <<>>
               /\ recognitionAttempts' = Truncated(recognitionAttempts)
               /\ nestedActionNodes' = Truncated(nestedActionNodes)
               /\ nestedNodes' = Truncated(nestedNodes)
               /\ UNCHANGED <<recognitionsByTaskId, actionsByTaskId>>
          [] OTHER -> UNCHANGED <<locals, hNodeEvent>>
  /\ evIdx' = evIdx + 1
  /\ UNCHANGED <<alphabet, limit, events, hEvents, pc, i, tasks, taskMap, ti, returned, statVars,
                 fileVars>>

\* faulty variant of WithRunningDuration: the status is not consulted
WithDurationAlways(task) ==
  IF Len(task.nodes) > 0
    THEN [task EXCEPT !.duration = Minus(DateGetTime(task.nodes[Len(task.nodes)].timestamp),
                                         DateGetTime(task.start_time))]
    ELSE task
\* faulty variant of WithRunningDuration: the first node's timestamp is taken
WithDurationOfFirstNode(task) ==
  IF task.status = "running" /\ Len(task.nodes) > 0
    THEN [task EXCEPT !.duration = Minus(DateGetTime(task.nodes[1].timestamp),
                                         DateGetTime(task.start_time))]
    ELSE task
\* the duration getTasks gives a task still running after getTaskNodes returned
WithRunningDuration(task) ==
  IF task.status = "running" /\ Len(task.nodes) > 0
    THEN [task EXCEPT !.duration = Minus(DateGetTime(task.nodes[Len(task.nodes)].timestamp),
                                         DateGetTime(task.start_time))]
    ELSE task

\* getTaskNodes returns: task.nodes = nodes, the running task's duration, the next task
EndTask ==
  /\ pc = "pass2"
  /\ ti <= Len(tasks)
  /\ evIdx > SliceEnd(tasks[ti], events)
  /\ tasks' = [tasks EXCEPT ![ti] = WithRunningDuration([@ EXCEPT !.nodes = nodes])]
  /\ ti' = ti + 1
  /\ evIdx' = IF ti + 1 <= Len(tasks) THEN tasks[ti + 1].startEventIndex ELSE 0
  /\ FreshLocals
  /\ UNCHANGED <<alphabet, limit, events, hEvents, pc, i, taskMap, returned, hNodeEvent, statVars,
                 fileVars>>

\* faulty variant of FilterPostStop: nothing is filtered
FilterNothing(tsks) == tsks
\* tasks.filter(task => task.entry !== 'MaaTaskerPostStop')
FilterPostStop(tsks) == SelectSeq(tsks, LAMBDA t : t.entry # "MaaTaskerPostStop")

\* faulty variant of Return: the buffer is kept
ReturnKeepingBuffer ==
  /\ pc = "pass2"
  /\ ti > Len(tasks)
  /\ returned' = FilterPostStop(tasks)
  /\ pc' = "done"
  /\ UNCHANGED <<alphabet, limit, events, hEvents, i, tasks, taskMap, ti, evIdx, locals, hNodeEvent,
                 statVars, fileVars>>

\* getTasks() clears the buffer and returns the filtered tasks
Return ==
  /\ pc = "pass2"
  /\ ti > Len(tasks)
  /\ events' = <<>>
  /\ returned' = FilterPostStop(tasks)
  /\ pc' = "done"
  /\ UNCHANGED <<alphabet, limit, hEvents, i, tasks, taskMap, ti, evIdx, locals, hNodeEvent, statVars,
                 fileVars>>

Next == ParseEvent \/ GetTasks \/ Pass1Step \/ Pass1End \/ NodeStep \/ EndTask \/ Return

\* LogParser.getEvents()
getEvents == events

\* the caller keeps the forest it was given and calls getTasks() again, with no parseFile
\* call in between
GetTasksAgain ==
  /\ pc = "done"
  /\ calls < MaxCalls
  /\ forest' = returned
  /\ pc' = "pass1"
  /\ i' = 1
  /\ tasks' = <<>>
  /\ taskMap' = {}
  /\ hEvents' = events
  /\ calls' = calls + 1
  /\ UNCHANGED <<alphabet, limit, events, ti, evIdx, locals, returned, hNodeEvent, stats, op,
                 callStatsMap, fileConfig, fileState, view, app, scan>>

NextAgain == Next \/ GetTasksAgain

-----------------------------------------------------------------------------
(* parseFile, one action per run between two awaits, and its callers *)

passVars == <<alphabet, limit, hEvents, i, tasks, taskMap, ti, evIdx, locals, returned,
              hNodeEvent, statVars>>

\* the contents of at most n lines
RECURSIVE Contents(_, _)
Contents(lines, n) ==
  IF n = 0 THEN {<<>>}
  ELSE Contents(lines, n - 1)
         \cup {Append(c, l) : c \in {d \in Contents(lines, n - 1) : Len(d) = n - 1}, l \in lines}

\* parseFile(content, onProgress) is called and runs to its first await: the four
\* collections are cleared; this.events is left alone.  content.split('\n') has at least
\* one element.
ParseFile ==
  /\ fpc = "idle"
  /\ pc \in {"parse", "done"}
  /\ parses < maxParses
  /\ \E c \in Contents(lineAlphabet, maxLines) \ {<<>>} : content' = c
  /\ onProgress' \in BOOLEAN
  /\ processIds' = {}
  /\ threadIds' = {}
  /\ taskProcessMap' = Cleared(taskProcessMap)
  /\ taskThreadMap' = Cleared(taskThreadMap)
  /\ fEvents' = <<>>
  /\ startIdx' = 0
  /\ lineNum' = 0
  /\ reports' = <<>>
  /\ parses' = parses + 1
  /\ calls' = 0
  /\ fpc' = "yield"
  /\ pc' = "parse"
  /\ UNCHANGED <<events, fileConfig, passVars, view, app, scan>>

\* the loop resumes after the await and processes the chunk's lines
ChunkLines ==
  /\ fpc = "yield"
  /\ LET endIdx == EndIdx(startIdx, chunkSize, Len(content))
         \* rawLines holds no line past its end
         last == IF endIdx < Len(content) THEN endIdx ELSE Len(content)
         st == LinesLoop(ParseState(fEvents, processIds, threadIds, taskProcessMap,
                                    taskThreadMap),
                         content, FirstLine(startIdx), last)
     IN /\ fEvents' = st.events
        /\ processIds' = st.processIds
        /\ threadIds' = st.threadIds
        /\ taskProcessMap' = st.taskProcessMap
        /\ taskThreadMap' = st.taskThreadMap
        /\ lineNum' = endIdx
        /\ fpc' = IF st.threw THEN "failed" ELSE "report"
  /\ UNCHANGED <<events, pc, fileConfig, content, onProgress, startIdx, reports, parses, calls,
                 passVars, view, app, scan>>

\* the chunk's progress report, then startIdx += chunkSize; after the last chunk
\* this.events = events and parseFile returns
ReportProgress ==
  /\ fpc = "report"
  /\ reports' = IF onProgress THEN Append(reports, Progress(lineNum, Len(content))) ELSE reports
  /\ startIdx' = startIdx + chunkSize
  /\ IF startIdx + chunkSize < Len(content)
       THEN fpc' = "yield" /\ UNCHANGED events
       ELSE fpc' = "idle" /\ events' = fEvents
  /\ UNCHANGED <<pc, fileConfig, processIds, threadIds, taskProcessMap, taskThreadMap, content,
                 onProgress, lineNum, fEvents, parses, calls, passVars, view, app, scan>>

\* the caller awaits parseFile and then calls getTasks()
GetTasksOfFile == fpc = "idle" /\ parses > 0 /\ GetTasks

NextFile ==
  ParseFile \/ ChunkLines \/ ReportProgress \/ GetTasksOfFile \/ Pass1Step \/ Pass1End \/ NodeStep
    \/ EndTask \/ Return

\* A file the statistics view is given, by the number of its lines and the events its
\* notification lines carry, in order
File(totalLines, evs) == [totalLines |-> totalLines, events |-> evs]
\* no file
NoFile == File(0, <<>>)

\* the statistics view after setup: no handler call yet
ViewAfterSetup ==
  [localTasks |-> <<>>,
   useLocalData |-> FALSE,
   isUploading |-> FALSE,
   loading |-> FALSE,
   parseProgress |-> 0,
   showParsingModal |-> FALSE,
   showFileLoadingModal |-> FALSE,
   uploadKey |-> 0,
   handler |-> [s \in 1..MaxOverlap |-> "none"],
   at |-> [s \in 1..MaxOverlap |-> "idle"],
   content |-> [s \in 1..MaxOverlap |-> NoFile],
   startIdx |-> [s \in 1..MaxOverlap |-> 0],
   arrivals |-> 0]

\* no parseMessageAndParams call yet
NoScan == [message |-> <<>>, i |-> 0, extractedParams |-> <<>>, spans |-> <<>>, at |-> "idle"]

\* App.vue after setup: no upload yet
AppAfterSetup ==
  [tasks |-> <<>>,
   availableProcessIds |-> <<>>,
   availableThreadIds |-> <<>>,
   loading |-> FALSE,
   parseProgress |-> 0,
   showParsingModal |-> FALSE,
   uploads |-> [s \in 1..MaxOverlap |-> [at |-> "idle", content |-> <<>>, startIdx |-> 0,
                                         events |-> <<>>]],
   started |-> 0,
   finished |-> 0]

\* parseFile's locals and the callers of the parser: no parseFile call yet
InitCallers ==
  /\ fpc = "idle"
  /\ content = <<>>
  /\ onProgress = FALSE
  /\ startIdx = 0
  /\ lineNum = 0
  /\ fEvents = <<>>
  /\ reports = <<>>
  /\ parses = 0
  /\ calls = 0
  /\ view = ViewAfterSetup
  /\ app = AppAfterSetup
  /\ scan = NoScan

\* the parser's collections once the buffer holds evs
InitCollections(evs) ==
  /\ processIds = AfterLines(evs).processIds
  /\ threadIds = AfterLines(evs).threadIds
  /\ taskProcessMap = AfterLines(evs).taskProcessMap
  /\ taskThreadMap = AfterLines(evs).taskThreadMap

\* the parser's collections after construction; no parseFile call yet
InitFileState == InitCollections(<<>>) /\ InitCallers

\* the buffer is filled event by event: parseFile is not called
InitEventLevel ==
  /\ InitCallers
  /\ lineAlphabet = {}
  /\ maxLines = 0
  /\ maxParses = 0
  /\ chunkSize = ChunkSize

\* the buffer is empty and is filled event by event
InitNoFile == InitCollections(<<>>) /\ InitEventLevel

\* the parser and the analyzer's caller after construction, the buffer aside
InitPasses ==
  /\ hEvents = <<>>
  /\ pc = "parse"
  /\ i = 0
  /\ tasks = <<>>
  /\ taskMap = {}
  /\ ti = 0
  /\ evIdx = 0
  /\ nodes = <<>>
  /\ nodeIdSet = {}
  /\ recognitionAttempts = <<>>
  /\ nestedNodes = <<>>
  /\ nestedActionNodes = <<>>
  /\ currentNextList = <<>>
  /\ recognitionsByTaskId = EmptyMap
  /\ actionsByTaskId = EmptyMap
  /\ returned = <<>>
  /\ hNodeEvent = <<>>

\* the analyzer before its first call: no statsMap was built
NoStatsMap == [method |-> "none", entries |-> <<>>]

\* no call of the analyzer yet
InitRest ==
  /\ InitPasses
  /\ InitNoFile
  /\ forest = <<>>
  /\ stats = <<>>
  /\ callStatsMap = NoStatsMap
  /\ op = [name |-> "none", topN |-> 0]

\* the parser after construction, with an empty buffer
InitParser == events = <<>> /\ InitRest

\* the parser once the lines that carry evs were parsed; no getTasks() call yet
InitAfter(evs) ==
  /\ events = evs
  /\ InitPasses
  /\ InitCollections(evs)
  /\ InitEventLevel
  /\ forest = <<>>
  /\ stats = <<>>
  /\ callStatsMap = NoStatsMap
  /\ op = [name |-> "none", topN |-> 0]

\* logs of two tasks (1/"a" and 2/"b") whose node completions are re-delivered with
\* another status, name and timestamp
NodeEvents ==
  {TaskStarting(1, "a", "", T0),
   TaskStarting(2, "b", "", T0),
   PipelineNode("Succeeded", 1, 10, "X", T0),
   PipelineNode("Failed", 1, 10, "Y", T1),
   PipelineNode("Succeeded", 1, 11, "Z", T1),
   PipelineNode("Succeeded", 2, 10, "W", T1),
   TaskSucceeded(1, "a", TH)}

Init == InitParser /\ alphabet = NodeEvents /\ limit = MaxEvents

Spec == Init /\ [][Next]_vars

\* the same logs, one event shorter, with further getTasks() calls
InitAgain == InitParser /\ alphabet = NodeEvents /\ limit = MaxEvents - 1

SpecAgain == InitAgain /\ [][NextAgain]_vars

\* logs of tasks that share a task_id or a uuid: task 5 without uuid, 5/"a" and 6/"a", with
\* close events carrying a uuid or none
TaskEvents ==
  {TaskStarting(5, "", "", T0),
   TaskStarting(5, "a", "", T0),
   TaskStarting(6, "a", "", T1),
   TaskSucceeded(5, "", T1),
   TaskSucceeded(5, "a", T1),
   TaskFailed(6, "a", TH),
   PipelineNode("Succeeded", 5, 10, "X", T1)}

InitTasks == InitParser /\ alphabet = TaskEvents /\ limit = MaxEvents

SpecTasks == InitTasks /\ [][Next]_vars

\* logs of one task (id 1) whose custom recognizers and actions run a sub-task (id 2)
NestedEvents ==
  {Recognition("Succeeded", 1, 100, "Outer", T1),
   Recognition("Succeeded", 2, 201, "InnerA", T0),
   Recognition("Failed", 2, 202, "InnerB", T1),
   RecognitionNode("Succeeded", 2, 20, "Sub", T1),
   PipelineNode("Succeeded", 1, 10, "X", TH)}

\* the buffer already holds the Tasker.Task.Starting event of task 1
InitNested ==
  /\ InitAfter(<<TaskStarting(1, "a", "", T0)>>)
  /\ alphabet = NestedEvents
  /\ limit = MaxEvents + 1

SpecNested == InitNested /\ [][Next]_vars

\* logs of task starts and closes only: a start without task_id (0), the post-stop task,
\* closes that match by uuid, by task_id (no uuid, or a blank one) or not at all
Pass1Events ==
  {TaskStarting(5, "a", "Main", T0),
   TaskStarting(5, "", "MaaTaskerPostStop", T0),
   TaskStarting(0, "a", "Main", T1),
   TaskStarting(6, "b", "Main", T1),
   TaskSucceeded(5, " ", T1),
   TaskSucceeded(5, "b", T1),
   TaskFailed(6, "", TH),
   TaskFailed(5, "a", TH)}

InitPass1 == InitParser /\ alphabet = Pass1Events /\ limit = MaxEvents

SpecPass1 == InitPass1 /\ [][Next]_vars

\* logs of one task (id 1) whose custom recognizer runs a sub-task (id 2) whose own custom
\* recognizer runs a sub-task (id 3)
DeepEvents ==
  {Recognition("Succeeded", 1, 100, "Outer", TH),
   Recognition("Succeeded", 2, 201, "Middle", T1),
   Recognition("Succeeded", 3, 301, "Inner", T0),
   RecognitionNode("Succeeded", 2, 20, "Sub", T1),
   RecognitionNode("Succeeded", 3, 30, "SubSub", T0),
   PipelineNode("Succeeded", 1, 10, "X", TH)}

\* the buffer already holds the Tasker.Task.Starting event of task 1
InitDeep ==
  /\ InitAfter(<<TaskStarting(1, "a", "", T0)>>)
  /\ alphabet = DeepEvents
  /\ limit = MaxEvents + 1

SpecDeep == InitDeep /\ [][Next]_vars

\* logs of one task (id 1): its own recognitions, its next lists, completions of nodes 10
\* and 11 and one without node_id, and the summaries of a sub-task (id 2)
WindowEvents ==
  {Recognition("Succeeded", 1, 100, "A", T0),
   Recognition("Failed", 1, 101, "B", T1),
   NextListStarting(1, <<NextItem("N1", FALSE, FALSE)>>, T0),
   NextListStarting(1, <<NextItem("N2", TRUE, FALSE), NextItem("N3", FALSE, TRUE)>>, T1),
   PipelineNode("Succeeded", 1, 10, "X", TH),
   PipelineNode("Failed", 1, 11, "Y", TH),
   PipelineNode("Succeeded", 1, 0, "NoId", TH),
   RecognitionNode("Succeeded", 2, 20, "Sub", T1),
   ActionNode("Succeeded", 2, 21, "SubAct", T1)}

\* the buffer already holds the Tasker.Task.Starting event of task 1
InitWindow ==
  /\ InitAfter(<<TaskStarting(1, "a", "", T0)>>)
  /\ alphabet = WindowEvents
  /\ limit = MaxEvents + 1

SpecWindow == InitWindow /\ [][Next]_vars

\* logs of one task (id 1) whose custom recognizers and actions run a sub-task (id 2):
\* the sub-task's recognitions and actions, its summaries, the task's own recognition and
\* the completions of nodes 10 and 11
ChildEvents ==
  {Recognition("Succeeded", 1, 100, "Own", T1),
   Recognition("Succeeded", 2, 201, "ChildA", T0),
   Recognition("Failed", 2, 202, "ChildB", T1),
   RecognitionNode("Succeeded", 2, 20, "Sub", T1),
   Action("Succeeded", 2, 301, "ChildAct", T0),
   ActionNode("Succeeded", 2, 21, "SubAct", T1),
   PipelineNode("Succeeded", 1, 10, "X", TH),
   PipelineNode("Succeeded", 1, 11, "Y", TH)}

\* the buffer already holds the Tasker.Task.Starting event of task 1
InitChildren ==
  /\ InitAfter(<<TaskStarting(1, "a", "", T0)>>)
  /\ alphabet = ChildEvents
  /\ limit = MaxEvents + 1

SpecChildren == InitChildren /\ [][Next]_vars

\* the chunk sizes the loop is run with: the program's 1000 and sizes small enough for a
\* file of a few lines to span several chunks
ChunkSizes == {1, 2, ChunkSize}

\* log files of two processes: task 5 started in Px1/Tx1 and re-announced by Px2/Tx2, the
\* post-stop task 6 started in Px2/Tx1, a start without task_id (0), a start without details, a notification without
\* msg, a line without the marker, a line that is not of the grammar and a blank line
FileLines ==
  {NotifyLine("Px1", "Tx1", TaskStarting(5, "a", "Main", T0)),
   NotifyLine("Px2", "Tx2", TaskStarting(5, "a", "Main", T1)),
   NotifyLine("Px2", "Tx1", TaskStarting(6, "", "MaaTaskerPostStop", T1)),
   NotifyLine("Px2", "Tx2", TaskStarting(0, "a", "Main", T1)),
   NotifyNoDetails("Px1", "Tx1", "Tasker.Task.Starting", T0),
   NotifyNoMsg("Px1", "Tx2"),
   PlainLine("Px2", "Tx2"),
   NoMatchLine,
   BlankLine}

\* a parser after construction whose caller parses one file, with any chunk size
InitFile ==
  /\ events = <<>> /\ alphabet = {} /\ limit = 0
  /\ InitPasses
  /\ forest = <<>> /\ stats = <<>> /\ op = [name |-> "none", topN |-> 0]
  /\ callStatsMap = NoStatsMap
  /\ InitFileState
  /\ lineAlphabet = FileLines
  /\ maxLines = MaxLines
  /\ maxParses = 1
  /\ chunkSize \in ChunkSizes

SpecFile == InitFile /\ [][NextFile]_vars

\* log files of tasks 5 (announced by Px1/Tx1 or by Px2/Tx2) and 6 (Px2/Tx1)
ReparseLines ==
  {NotifyLine("Px1", "Tx1", TaskStarting(5, "a", "Main", T0)),
   NotifyLine("Px2", "Tx2", TaskStarting(5, "a", "Main", T1)),
   NotifyLine("Px2", "Tx1", TaskStarting(6, "b", "Main", T1)),
   PlainLine("Px1", "Tx2")}

\* a parser after construction whose caller parses a file and then another, calling
\* getTasks() after each or not
InitReparse ==
  /\ events = <<>> /\ alphabet = {} /\ limit = 0
  /\ InitPasses
  /\ forest = <<>> /\ stats = <<>> /\ op = [name |-> "none", topN |-> 0]
  /\ callStatsMap = NoStatsMap
  /\ InitFileState
  /\ lineAlphabet = ReparseLines
  /\ maxLines = MaxLines - 1
  /\ maxParses = 2
  /\ chunkSize \in ChunkSizes

SpecReparse == InitReparse /\ [][NextFile]_vars

-----------------------------------------------------------------------------
(* NodeStatisticsAnalyzer *)

\* one hour in milliseconds, the outlier threshold
HourMs == 3600000
\* the default of the topN parameter
DefaultTopN == 10

RECURSIVE Gcd(_, _)
Gcd(a, b) == IF b = 0 THEN a ELSE Gcd(b, a % b)
Abs(a) == IF a < 0 THEN 0 - a ELSE a

\* the exact quotient n / d of two integers, d > 0, in lowest terms
Ratio(n, d) ==
  LET g == Gcd(Abs(n), d) IN [kind |-> "num", num |-> n \div g, den |-> d \div g]
NaNRatio == [kind |-> "nan", num |-> 0, den |-> 1]
\* a / count for a JS number a and an array length count (0 / 0 is NaN)
Div(a, count) == IF IsNum(a) /\ count > 0 THEN Ratio(a.v, count) ELSE NaNRatio

\* A JS number is an IEEE-754 double.  A quotient of integers that is rounded once is held
\* exactly (Ratio) and stands for the double nearest to it.  successRate is rounded twice,
\* the quotient and then the product, so it is computed here bit by bit as the engine
\* computes it.  A double that is not negative is 0 or mant * 2^exp with
\* 2^52 <= mant < 2^53; the mantissa is held as three digits to the base 2^18, the most
\* significant first (of 17, 18 and 18 bits), an integer of the checker having 32 bits:
\* mant = mant[1] * 2^36 + mant[2] * 2^18 + mant[3].
DigitBase == 262144
TopDigitBase == 131072

RECURSIVE Pow2(_)
Pow2(k) == IF k = 0 THEN 1 ELSE 2 * Pow2(k - 1)

Double(mant, exp) == [kind |-> "num", mant |-> mant, exp |-> exp]
ZeroDouble == Double(<<0, 0, 0>>, 0)
NaNDouble == [kind |-> "nan", mant |-> <<0, 0, 0>>, exp |-> 0]

\* the double next above mant * 2^exp
NextUp(mant, exp) ==
  IF mant[3] + 1 < DigitBase THEN Double(<<mant[1], mant[2], mant[3] + 1>>, exp)
  ELSE IF mant[2] + 1 < DigitBase THEN Double(<<mant[1], mant[2] + 1, 0>>, exp)
  ELSE IF mant[1] + 1 < TopDigitBase THEN Double(<<mant[1] + 1, 0, 0>>, exp)
  ELSE Double(<<TopDigitBase \div 2, 0, 0>>, exp + 1)

\* round to nearest, ties to even: mant * 2^exp with the bits after the mantissa dropped,
\* half saying that the first of them is set and more that one after it is
Rounded(mant, exp, half, more) ==
  IF half /\ (more \/ mant[3] % 2 = 1) THEN NextUp(mant, exp) ELSE Double(mant, exp)

\* a and d doubled until d <= a < 2 * d, for a > 0 and d > 0: a / d is the quotient of the
\* two numbers returned, times 2^exp
RECURSIVE Scaled(_, _, _)
Scaled(a, d, exp) ==
  IF a < d THEN Scaled(2 * a, d, exp - 1)
  ELSE IF a >= 2 * d THEN Scaled(a, 2 * d, exp + 1)
  ELSE [a |-> a, d |-> d, exp |-> exp]

\* long division: the next k bits of r / d, for r < 2 * d, and the remainder they leave
RECURSIVE QuotientBits(_, _, _)
QuotientBits(r, d, k) ==
  IF k = 0 \/ r = 0 THEN [q |-> 0, r |-> r]
  ELSE LET bit == IF r >= d THEN 1 ELSE 0
           rest == QuotientBits(2 * (r - bit * d), d, k - 1)
       IN [q |-> bit * Pow2(k - 1) + rest.q, r |-> rest.r]

\* a / d in doubles for integers 0 <= a and 0 <= d below 2^29, d = 0 only with a = 0
\* (0 / 0 is NaN): 53 bits of the quotient, rounded by the bits after them
Quotient(a, d) ==
  IF d = 0 THEN NaNDouble
  ELSE IF a = 0 THEN ZeroDouble
  ELSE LET s == Scaled(a, d, 0)
           top == QuotientBits(s.a, s.d, 17)
           mid == QuotientBits(top.r, s.d, 18)
           low == QuotientBits(mid.r, s.d, 18)
           guard == QuotientBits(low.r, s.d, 1)
       IN Rounded(<<top.q, mid.q, low.q>>, s.exp - 52, guard.q = 1, guard.r # 0)

\* faulty variant of Times100: the rate is left a fraction
Times100Forgotten(r) == r
\* r * 100 in doubles: the product of the mantissa and 100 has 59 or 60 bits, of which 53
\* are kept
Times100(r) ==
  IF r.kind # "num" THEN NaNDouble
  ELSE IF r = ZeroDouble THEN ZeroDouble
  ELSE LET p0 == r.mant[3] * 100
           p1 == r.mant[2] * 100 + (p0 \div DigitBase)
           p2 == r.mant[1] * 100 + (p1 \div DigitBase)
           shift == IF p2 >= 64 * TopDigitBase THEN 7 ELSE 6
           unit == Pow2(shift)
           up == DigitBase \div unit
           dropped == p0 % unit
           mant == <<p2 \div unit,
                     ((p2 % unit) * up) + ((p1 % DigitBase) \div unit),
                     ((p1 % unit) * up) + ((p0 % DigitBase) \div unit)>>
       IN Rounded(mant, r.exp + shift, dropped >= unit \div 2, dropped % (unit \div 2) # 0)

\* x <= y on doubles that are numbers and not negative
DoubleLe(x, y) ==
  IF x = ZeroDouble THEN TRUE
  ELSE IF y = ZeroDouble THEN FALSE
  ELSE \/ x.exp < y.exp
       \/ /\ x.exp = y.exp
          /\ \/ x.mant[1] < y.mant[1]
             \/ x.mant[1] = y.mant[1] /\ x.mant[2] < y.mant[2]
             \/ x.mant[1] = y.mant[1] /\ x.mant[2] = y.mant[2] /\ x.mant[3] <= y.mant[3]

\* x and y are the same double or neighbours: at most one unit in the last place apart
Neighbours(x, y) ==
  \/ x = y
  \/ x # ZeroDouble /\ NextUp(x.mant, x.exp) = y
  \/ y # ZeroDouble /\ NextUp(y.mant, y.exp) = x

\* a < b on quotients (false when either is NaN)
RatLt(a, b) == a.kind = "num" /\ b.kind = "num" /\ a.num * b.den < b.num * a.den

\* durations.reduce((sum, d) => sum + d, 0)
RECURSIVE Sum(_)
Sum(ds) == IF ds = <<>> THEN Num(0) ELSE Plus(Sum(SubSeq(ds, 1, Len(ds) - 1)), ds[Len(ds)])

\* Math.min(...ds) for a non-empty ds: NaN if any element is NaN
MathMin(ds) ==
  IF \E x \in 1..Len(ds) : ~IsNum(ds[x]) THEN NaN
  ELSE ds[CHOOSE x \in 1..Len(ds) : \A y \in 1..Len(ds) : ds[x].v <= ds[y].v]
\* Math.max(...ds) for a non-empty ds
MathMax(ds) ==
  IF \E x \in 1..Len(ds) : ~IsNum(ds[x]) THEN NaN
  ELSE ds[CHOOSE x \in 1..Len(ds) : \A y \in 1..Len(ds) : ds[x].v >= ds[y].v]

\* the index of name's entry in a statsMap (a Map in insertion order), 0 if it has none
EntryOf(statsMap, name) ==
  IF \E x \in 1..Len(statsMap) : statsMap[x].name = name
    THEN CHOOSE x \in 1..Len(statsMap) : statsMap[x].name = name
    ELSE 0

\* analyze: the duration of node idx of task; Undefined when the node is skipped because it
\* is the last node of a task that has not ended
NodeDuration(task, idx) ==
  IF idx < Len(task.nodes)
    THEN Minus(DateGetTime(task.nodes[idx + 1].timestamp), DateGetTime(task.nodes[idx].timestamp))
    ELSE IF task.end_time # ""
      THEN Minus(DateGetTime(task.end_time), DateGetTime(task.nodes[idx].timestamp))
      ELSE Undefined

\* analyze: duration < 0 || duration > 3600000
IsOutlier(duration) == Lt(duration, Num(0)) \/ Gt(duration, Num(HourMs))

\* analyze: the statsMap after one more recorded node
Recorded(statsMap, node, duration) ==
  LET withEntry == IF EntryOf(statsMap, node.name) = 0
                     THEN Append(statsMap, [name |-> node.name, durations |-> <<>>,
                                            successCount |-> 0, failCount |-> 0])
                     ELSE statsMap
      x == EntryOf(withEntry, node.name)
  IN [withEntry EXCEPT ![x] =
        [@ EXCEPT !.durations = Append(@, duration),
                  !.successCount = IF node.status = "success" THEN @ + 1 ELSE @,
                  !.failCount = IF node.status = "success" THEN @ ELSE @ + 1]]

\* faulty variant of AnalyzeNode: a node that is skipped or filtered out is still counted
\* as a success or a failure
AnalyzeNodeCountingAll(statsMap, task, idx) ==
  LET duration == NodeDuration(task, idx)
      recorded == Recorded(statsMap, task.nodes[idx], duration)
      x == EntryOf(recorded, task.nodes[idx].name)
  IN IF duration = Undefined \/ IsOutlier(duration)
       THEN [recorded EXCEPT ![x].durations = SubSeq(@, 1, Len(@) - 1)]
       ELSE recorded

\* analyze: the body of the loop over a task's nodes
AnalyzeNode(statsMap, task, idx) ==
  LET duration == NodeDuration(task, idx)
  IN IF duration = Undefined \/ IsOutlier(duration)
       THEN statsMap
       ELSE Recorded(statsMap, task.nodes[idx], duration)

RECURSIVE AnalyzeNodes(_, _, _)
AnalyzeNodes(statsMap, task, upTo) ==
  IF upTo = 0 THEN statsMap
  ELSE AnalyzeNode(AnalyzeNodes(statsMap, task, upTo - 1), task, upTo)

\* faulty variant of NewStatsMap: the map is a static field of the class, so a call starts
\* with what the last call of the same method left in it
KeptStatsMap(method) ==
  IF callStatsMap.method = method THEN callStatsMap.entries ELSE <<>>
\* const statsMap = new Map(), at the start of analyze and of analyzeRecognitionAction
NewStatsMap(method) == <<>>

RECURSIVE AnalyzeTasks(_, _)
AnalyzeTasks(tsks, upTo) ==
  IF upTo = 0 THEN NewStatsMap("analyze")
  ELSE AnalyzeNodes(AnalyzeTasks(tsks, upTo - 1), tsks[upTo], Len(tsks[upTo].nodes))

\* analyze: the row of one statsMap entry
NodeRow(entry) ==
  LET count == Len(entry.durations)
      totalDuration == Sum(entry.durations)
  IN [name |-> entry.name,
      count |-> count,
      totalDuration |-> totalDuration,
      avgDuration |-> Div(totalDuration, count),
      minDuration |-> MathMin(entry.durations),
      maxDuration |-> MathMax(entry.durations),
      successCount |-> entry.successCount,
      failCount |-> entry.failCount,
      successRate |-> Times100(Quotient(entry.successCount, entry.successCount + entry.failCount)),
      durations |-> entry.durations]

\* compareFn(x, y) < 0 for the comparators the analyzer sorts with
Before(order, x, y) ==
  CASE order = "avgDuration" -> RatLt(y.avgDuration, x.avgDuration)
    [] order = "count" -> y.count < x.count
    [] order = "failRatio" -> y.failCount * x.count < x.failCount * y.count
    [] order = "avgActionDuration" -> RatLt(y.avgActionDuration, x.avgActionDuration)

\* Array.prototype.sort, as V8 (the engine of node and of the Tauri and Chromium web views)
\* runs it: TimSort.  The array is cut into runs, each the ascending or descending run found
\* in place and, when that is shorter than the minimum run length, the rows after it placed
\* by binary insertion; the runs are kept on a stack and merged, two neighbours at a time,
\* galloping through a run once one side has won seven times in a row.  An array of fewer
\* than 64 rows is a single run.  A comparator result of NaN counts as 0, so Before is FALSE
\* for it.  With a comparator that is consistent this is the stable sort ECMAScript asks
\* for; with a NaN among the keys the order is the one this algorithm gives.  Indices count
\* from 0, as they do in the array.

\* array[pos]
ElementAt(array, pos) == array[pos + 1]
\* array.slice(from, to)
Elements(array, from, to) == SubSeq(array, from + 1, to)
\* array[pos] = x
Store(array, pos, x) == [array EXCEPT ![pos + 1] = x]
\* length elements of source from srcPos on, written into target from dstPos on
Copy(source, srcPos, target, dstPos, length) ==
  SubSeq(target, 1, dstPos) \o SubSeq(source, srcPos + 1, srcPos + length)
    \o SubSeq(target, dstPos + length + 1, Len(target))
\* the rows in reverse order
Reversed(rows) == [k \in 1..Len(rows) |-> rows[Len(rows) + 1 - k]]

\* kMinGallopWins: the wins in a row after which a merge starts to gallop
MinGallopWins == 7

\* ComputeMinRunLength's loop: n halved while it is 64 or more, r set once a bit is shifted out
RECURSIVE MinRunLength(_, _)
MinRunLength(n, r) ==
  IF n >= 64 THEN MinRunLength(n \div 2, IF n % 2 = 1 THEN 1 ELSE r) ELSE n + r
\* ComputeMinRunLength: the length itself below 64, else a number in 32..64
ComputeMinRunLength(length) == MinRunLength(length, 0)

\* CountAndMakeRun's loop: the length of the run that starts at lowArg, idx being the row to
\* look at next; a descending run goes on while compareFn(current, previous) < 0, an
\* ascending one while it is not
RECURSIVE RunLength(_, _, _, _, _, _)
RunLength(rows, lowArg, idx, high, isDescending, order) ==
  IF idx < high /\ Before(order, ElementAt(rows, idx), ElementAt(rows, idx - 1)) = isDescending
    THEN RunLength(rows, lowArg, idx + 1, high, isDescending, order)
    ELSE idx - lowArg

\* CountAndMakeRun(lowArg, high): the array with the run that starts at lowArg made
\* ascending, and the length of that run
CountAndMakeRun(rows, lowArg, high, order) ==
  IF lowArg + 1 = high THEN [rows |-> rows, runLength |-> 1]
  ELSE LET isDescending == Before(order, ElementAt(rows, lowArg + 1), ElementAt(rows, lowArg))
           runLength == RunLength(rows, lowArg, lowArg + 2, high, isDescending, order)
       IN [rows |-> IF isDescending
                      THEN Copy(Reversed(Elements(rows, lowArg, lowArg + runLength)), 0,
                                rows, lowArg, runLength)
                      ELSE rows,
           runLength |-> runLength]

\* BinaryInsertionSort's search: the index in left..right the pivot is put at
RECURSIVE InsertionPoint(_, _, _, _, _)
InsertionPoint(rows, pivot, left, right, order) ==
  IF left >= right THEN left
  ELSE LET mid == left + ((right - left) \div 2)
       IN IF Before(order, pivot, ElementAt(rows, mid))
            THEN InsertionPoint(rows, pivot, left, mid, order)
            ELSE InsertionPoint(rows, pivot, mid + 1, right, order)

\* BinaryInsertionSort's loop body: the row at start moved down to left, the rows between
\* moved up by one
Inserted(rows, left, start) ==
  Store(Copy(rows, left, rows, left + 1, start - left), left, ElementAt(rows, start))

\* BinaryInsertionSort's loop: the rows from start up to high placed among those from low on
RECURSIVE InsertEach(_, _, _, _, _)
InsertEach(rows, low, start, high, order) ==
  IF start >= high THEN rows
  ELSE InsertEach(Inserted(rows, InsertionPoint(rows, ElementAt(rows, start), low, start, order),
                           start),
                  low, start + 1, high, order)

\* BinaryInsertionSort(low, startArg, high)
BinaryInsertionSort(rows, low, startArg, high, order) ==
  InsertEach(rows, low, IF low = startArg THEN startArg + 1 ELSE startArg, high, order)

\* the comparison a gallop makes at array[pos]: compareFn(key, array[pos]) < 0 in
\* GallopRight (keyFirst), compareFn(array[pos], key) < 0 in GallopLeft
GallopBefore(array, pos, key, keyFirst, order) ==
  IF keyFirst THEN Before(order, key, ElementAt(array, pos))
  ELSE Before(order, ElementAt(array, pos), key)

\* the galloping loop of GallopLeft and GallopRight: from origin, in steps of 1, 3, 7, ...
\* rows in the direction step, while the offset is below maxOfs and the comparison says
\* whileBefore; the last offset tried and the one stopped at (maxOfs at most)
RECURSIVE GallopOffsets(_, _, _, _, _, _, _, _, _, _)
GallopOffsets(array, key, origin, step, maxOfs, lastOfs, offset, keyFirst, whileBefore, order) ==
  IF offset < maxOfs
       /\ GallopBefore(array, origin + step * offset, key, keyFirst, order) = whileBefore
    THEN GallopOffsets(array, key, origin, step, maxOfs, offset, 2 * offset + 1,
                       keyFirst, whileBefore, order)
    ELSE [lastOfs |-> lastOfs, offset |-> IF offset > maxOfs THEN maxOfs ELSE offset]

\* the binary search that ends GallopLeft and GallopRight
RECURSIVE GallopSearch(_, _, _, _, _, _, _)
GallopSearch(array, key, base, lastOfs, offset, keyFirst, order) ==
  IF lastOfs >= offset THEN offset
  ELSE LET m == lastOfs + ((offset - lastOfs) \div 2)
       IN IF GallopBefore(array, base + m, key, keyFirst, order)
            THEN IF keyFirst THEN GallopSearch(array, key, base, lastOfs, m, keyFirst, order)
                 ELSE GallopSearch(array, key, base, m + 1, offset, keyFirst, order)
            ELSE IF keyFirst THEN GallopSearch(array, key, base, m + 1, offset, keyFirst, order)
                 ELSE GallopSearch(array, key, base, lastOfs, m, keyFirst, order)

\* GallopLeft(array, key, base, length, hint): where key goes in the run of length rows at
\* base, before the rows that compare equal to it
GallopLeft(array, key, base, length, hint, order) ==
  LET rightwards == Before(order, ElementAt(array, base + hint), key)
      found == IF rightwards
                 THEN GallopOffsets(array, key, base + hint, 1, length - hint, 0, 1,
                                    FALSE, TRUE, order)
                 ELSE GallopOffsets(array, key, base + hint, 0 - 1, hint + 1, 0, 1,
                                    FALSE, FALSE, order)
      lastOfs == IF rightwards THEN found.lastOfs + hint ELSE hint - found.offset
      offset == IF rightwards THEN found.offset + hint ELSE hint - found.lastOfs
  IN GallopSearch(array, key, base, lastOfs + 1, offset, FALSE, order)

\* GallopRight(array, key, base, length, hint): where key goes in the run, after the rows
\* that compare equal to it
GallopRight(array, key, base, length, hint, order) ==
  LET leftwards == Before(order, key, ElementAt(array, base + hint))
      found == IF leftwards
                 THEN GallopOffsets(array, key, base + hint, 0 - 1, hint + 1, 0, 1,
                                    TRUE, TRUE, order)
                 ELSE GallopOffsets(array, key, base + hint, 1, length - hint, 0, 1,
                                    TRUE, FALSE, order)
      lastOfs == IF leftwards THEN hint - found.offset ELSE found.lastOfs + hint
      offset == IF leftwards THEN hint - found.lastOfs ELSE found.offset + hint
  IN GallopSearch(array, key, base, lastOfs + 1, offset, TRUE, order)

\* The state of a merge is a record: the array (rows), the copy of the shorter run (temp),
\* the cursors and the lengths that remain, the wins in a row of each side, minGallop and
\* what of it was written back to the sort state (stored), and the label the merge has
\* jumped to ("" while it runs).

\* a merge stopped at its label Succeed, CopyB or CopyA
Labelled(m, label) == [m EXCEPT !.label = label]

\* array[dest++] = array[cursorB++]; --lengthB
TakeB(m) ==
  [m EXCEPT !.rows = Store(m.rows, m.dest, ElementAt(m.rows, m.cursorB)),
            !.dest = @ + 1, !.cursorB = @ + 1, !.lengthB = @ - 1]
\* array[dest++] = temp[cursorTemp++]; --lengthA
TakeTempUp(m) ==
  [m EXCEPT !.rows = Store(m.rows, m.dest, ElementAt(m.temp, m.cursorTemp)),
            !.dest = @ + 1, !.cursorTemp = @ + 1, !.lengthA = @ - 1]
\* array[dest--] = array[cursorA--]; --lengthA
TakeA(m) ==
  [m EXCEPT !.rows = Store(m.rows, m.dest, ElementAt(m.rows, m.cursorA)),
            !.dest = @ - 1, !.cursorA = @ - 1, !.lengthA = @ - 1]
\* array[dest--] = temp[cursorTemp--]; --lengthB
TakeTempDown(m) ==
  [m EXCEPT !.rows = Store(m.rows, m.dest, ElementAt(m.temp, m.cursorTemp)),
            !.dest = @ - 1, !.cursorTemp = @ - 1, !.lengthB = @ - 1]
\* ++nofWinsA; nofWinsB = 0 and the other way round
WonA(m) == [m EXCEPT !.nofWinsA = @ + 1, !.nofWinsB = 0]
WonB(m) == [m EXCEPT !.nofWinsB = @ + 1, !.nofWinsA = 0]
\* minGallop = max(1, minGallop - 1); sortState.minGallop = minGallop
LoweredMinGallop(m) ==
  [m EXCEPT !.minGallop = IF @ - 1 > 1 THEN @ - 1 ELSE 1,
            !.stored = IF m.minGallop - 1 > 1 THEN m.minGallop - 1 ELSE 1]
\* ++minGallop; sortState.minGallop = minGallop
RaisedMinGallop(m) == [m EXCEPT !.minGallop = @ + 1, !.stored = m.minGallop + 1]
\* the merge goes on galloping while a side wins MinGallopWins rows or more
StillGalloping(m) == m.nofWinsA >= MinGallopWins \/ m.nofWinsB >= MinGallopWins

\* MergeLow's loop that takes one row at a time, from run B when it compares before the
\* row of the copy of run A, until a run is used up or one side has won minGallop times
RECURSIVE MergeLowPairs(_, _)
MergeLowPairsAfterB(m, order) ==
  IF m.lengthB = 0 THEN Labelled(m, "Succeed")
  ELSE IF m.nofWinsB >= m.minGallop THEN m
  ELSE MergeLowPairs(m, order)
MergeLowPairsAfterA(m, order) ==
  IF m.lengthA = 1 THEN Labelled(m, "CopyB")
  ELSE IF m.nofWinsA >= m.minGallop THEN m
  ELSE MergeLowPairs(m, order)
MergeLowPairs(m, order) ==
  IF Before(order, ElementAt(m.rows, m.cursorB), ElementAt(m.temp, m.cursorTemp))
    THEN MergeLowPairsAfterB(WonB(TakeB(m)), order)
    ELSE MergeLowPairsAfterA(WonA(TakeTempUp(m)), order)

\* MergeLow's galloping loop: the nofWinsA rows of A that go before the next row of B are
\* copied at once, then that row of B, then the nofWinsB rows of B that go before the next
\* row of A, then that row of A; again while either side wins MinGallopWins rows or more
CopiedTempUp(m, nofWinsA) ==
  [m EXCEPT !.nofWinsA = nofWinsA,
            !.rows = Copy(m.temp, m.cursorTemp, m.rows, m.dest, nofWinsA),
            !.dest = @ + nofWinsA, !.cursorTemp = @ + nofWinsA, !.lengthA = @ - nofWinsA]
CopiedBUp(m, nofWinsB) ==
  [m EXCEPT !.nofWinsB = nofWinsB,
            !.rows = Copy(m.rows, m.cursorB, m.rows, m.dest, nofWinsB),
            !.dest = @ + nofWinsB, !.cursorB = @ + nofWinsB, !.lengthB = @ - nofWinsB]
RECURSIVE MergeLowGallop(_, _)
MergeLowGallopAfterTakeA(m, order) ==
  IF m.lengthA = 1 THEN Labelled(m, "CopyB")
  ELSE IF StillGalloping(m) THEN MergeLowGallop(m, order)
  ELSE m
MergeLowGallopAfterB(m, order) ==
  IF m.nofWinsB > 0 /\ m.lengthB = 0 THEN Labelled(m, "Succeed")
  ELSE MergeLowGallopAfterTakeA(TakeTempUp(m), order)
MergeLowGallopAfterTakeB(m, order) ==
  IF m.lengthB = 0 THEN Labelled(m, "Succeed")
  ELSE MergeLowGallopAfterB(
         CopiedBUp(m, GallopLeft(m.rows, ElementAt(m.temp, m.cursorTemp), m.cursorB, m.lengthB,
                                 0, order)),
         order)
MergeLowGallopAfterA(m, order) ==
  IF m.nofWinsA > 0 /\ m.lengthA = 1 THEN Labelled(m, "CopyB")
  ELSE IF m.nofWinsA > 0 /\ m.lengthA = 0 THEN Labelled(m, "Succeed")
  ELSE MergeLowGallopAfterTakeB(TakeB(m), order)
MergeLowGallop(m, order) ==
  MergeLowGallopAfterA(
    CopiedTempUp(LoweredMinGallop(m),
                 GallopRight(m.temp, ElementAt(m.rows, m.cursorB), m.cursorTemp, m.lengthA, 0,
                             order)),
    order)

\* MergeLow's outer loop: rows one at a time, then galloping, with minGallop raised by one
\* each time a loop is left and lowered by one each round of galloping
RECURSIVE MergeLowLoop(_, _)
MergeLowLoopAfterGallop(m, order) ==
  IF m.label # "" THEN m ELSE MergeLowLoop(RaisedMinGallop(m), order)
MergeLowLoopAfterPairs(m, order) ==
  IF m.label # "" THEN m
  ELSE MergeLowLoopAfterGallop(MergeLowGallop([m EXCEPT !.minGallop = @ + 1], order), order)
MergeLowLoop(m, order) ==
  MergeLowLoopAfterPairs(MergeLowPairs([m EXCEPT !.nofWinsA = 0, !.nofWinsB = 0], order), order)

\* MergeLow up to its loop: run A copied, the first row of B taken
MergeLowStart(sortState, baseA, lengthA, baseB, lengthB) ==
  TakeB([rows |-> sortState.rows,
         temp |-> Elements(sortState.rows, baseA, baseA + lengthA),
         dest |-> baseA, cursorTemp |-> 0, cursorA |-> 0, cursorB |-> baseB, baseA |-> baseA,
         lengthA |-> lengthA, lengthB |-> lengthB,
         minGallop |-> sortState.minGallop, stored |-> sortState.minGallop,
         nofWinsA |-> 0, nofWinsB |-> 0, label |-> ""])
MergeLowBody(m, order) ==
  IF m.lengthB = 0 THEN Labelled(m, "Succeed")
  ELSE IF m.lengthA = 1 THEN Labelled(m, "CopyB")
  ELSE MergeLowLoop(m, order)
\* MergeLow from its labels on: at Succeed what is left of the copy of A is copied back, at
\* CopyB what is left of B is moved down and the last row of A put after it
MergeLowEnd(sortState, m) ==
  [sortState EXCEPT
     !.rows = IF m.label = "Succeed"
                THEN IF m.lengthA > 0
                       THEN Copy(m.temp, m.cursorTemp, m.rows, m.dest, m.lengthA)
                       ELSE m.rows
                ELSE Store(Copy(m.rows, m.cursorB, m.rows, m.dest, m.lengthB),
                           m.dest + m.lengthB, ElementAt(m.temp, m.cursorTemp)),
     !.minGallop = m.stored]

\* MergeLow(baseA, lengthA, baseB, lengthB): the neighbouring runs A and B merged from the
\* left through a copy of A, A being the shorter
MergeLow(sortState, baseA, lengthA, baseB, lengthB, order) ==
  MergeLowEnd(sortState,
              MergeLowBody(MergeLowStart(sortState, baseA, lengthA, baseB, lengthB), order))

\* MergeHigh's loop that takes one row at a time, from the right
RECURSIVE MergeHighPairs(_, _)
MergeHighPairsAfterA(m, order) ==
  IF m.lengthA = 0 THEN Labelled(m, "Succeed")
  ELSE IF m.nofWinsA >= m.minGallop THEN m
  ELSE MergeHighPairs(m, order)
MergeHighPairsAfterB(m, order) ==
  IF m.lengthB = 1 THEN Labelled(m, "CopyA")
  ELSE IF m.nofWinsB >= m.minGallop THEN m
  ELSE MergeHighPairs(m, order)
MergeHighPairs(m, order) ==
  IF Before(order, ElementAt(m.temp, m.cursorTemp), ElementAt(m.rows, m.cursorA))
    THEN MergeHighPairsAfterA(WonA(TakeA(m)), order)
    ELSE MergeHighPairsAfterB(WonB(TakeTempDown(m)), order)

\* MergeHigh's galloping loop, from the right: the rows of A that go after the last row
\* left of B are moved up at once, then that row of B, then the rows of B that go after the
\* last row left of A, then that row of A
CopiedADown(m, nofWinsA) ==
  [m EXCEPT !.nofWinsA = nofWinsA,
            !.rows = Copy(m.rows, m.cursorA - nofWinsA + 1, m.rows, m.dest - nofWinsA + 1,
                          nofWinsA),
            !.dest = @ - nofWinsA, !.cursorA = @ - nofWinsA, !.lengthA = @ - nofWinsA]
CopiedTempDown(m, nofWinsB) ==
  [m EXCEPT !.nofWinsB = nofWinsB,
            !.rows = Copy(m.temp, m.cursorTemp - nofWinsB + 1, m.rows, m.dest - nofWinsB + 1,
                          nofWinsB),
            !.dest = @ - nofWinsB, !.cursorTemp = @ - nofWinsB, !.lengthB = @ - nofWinsB]
RECURSIVE MergeHighGallop(_, _)
MergeHighGallopAfterTakeA(m, order) ==
  IF m.lengthA = 0 THEN Labelled(m, "Succeed")
  ELSE IF StillGalloping(m) THEN MergeHighGallop(m, order)
  ELSE m
MergeHighGallopAfterB(m, order) ==
  IF m.nofWinsB > 0 /\ m.lengthB = 1 THEN Labelled(m, "CopyA")
  ELSE IF m.nofWinsB > 0 /\ m.lengthB = 0 THEN Labelled(m, "Succeed")
  ELSE MergeHighGallopAfterTakeA(TakeA(m), order)
MergeHighGallopAfterTakeB(m, order) ==
  IF m.lengthB = 1 THEN Labelled(m, "CopyA")
  ELSE MergeHighGallopAfterB(
         CopiedTempDown(m, m.lengthB - GallopLeft(m.temp, ElementAt(m.rows, m.cursorA), 0,
                                                  m.lengthB, m.lengthB - 1, order)),
         order)
MergeHighGallopAfterA(m, order) ==
  IF m.nofWinsA > 0 /\ m.lengthA = 0 THEN Labelled(m, "Succeed")
  ELSE MergeHighGallopAfterTakeB(TakeTempDown(m), order)
MergeHighGallop(m, order) ==
  MergeHighGallopAfterA(
    CopiedADown(LoweredMinGallop(m),
                m.lengthA - GallopRight(m.rows, ElementAt(m.temp, m.cursorTemp), m.baseA,
                                        m.lengthA, m.lengthA - 1, order)),
    order)

\* MergeHigh's outer loop
RECURSIVE MergeHighLoop(_, _)
MergeHighLoopAfterGallop(m, order) ==
  IF m.label # "" THEN m ELSE MergeHighLoop(RaisedMinGallop(m), order)
MergeHighLoopAfterPairs(m, order) ==
  IF m.label # "" THEN m
  ELSE MergeHighLoopAfterGallop(MergeHighGallop([m EXCEPT !.minGallop = @ + 1], order), order)
MergeHighLoop(m, order) ==
  MergeHighLoopAfterPairs(MergeHighPairs([m EXCEPT !.nofWinsA = 0, !.nofWinsB = 0], order),
                          order)

\* MergeHigh up to its loop: run B copied, the last row of A taken
MergeHighStart(sortState, baseA, lengthA, baseB, lengthB) ==
  TakeA([rows |-> sortState.rows,
         temp |-> Elements(sortState.rows, baseB, baseB + lengthB),
         dest |-> baseB + lengthB - 1, cursorTemp |-> lengthB - 1,
         cursorA |-> baseA + lengthA - 1, cursorB |-> 0, baseA |-> baseA,
         lengthA |-> lengthA, lengthB |-> lengthB,
         minGallop |-> sortState.minGallop, stored |-> sortState.minGallop,
         nofWinsA |-> 0, nofWinsB |-> 0, label |-> ""])
MergeHighBody(m, order) ==
  IF m.lengthA = 0 THEN Labelled(m, "Succeed")
  ELSE IF m.lengthB = 1 THEN Labelled(m, "CopyA")
  ELSE MergeHighLoop(m, order)
\* MergeHigh from its labels on: at Succeed what is left of the copy of B is copied back,
\* at CopyA what is left of A is moved up and the first row of B put before it
MergeHighEnd(sortState, m) ==
  [sortState EXCEPT
     !.rows = IF m.label = "Succeed"
                THEN IF m.lengthB > 0
                       THEN Copy(m.temp, 0, m.rows, m.dest - (m.lengthB - 1), m.lengthB)
                       ELSE m.rows
                ELSE Store(Copy(m.rows, m.cursorA - m.lengthA + 1, m.rows,
                                m.dest - m.lengthA + 1, m.lengthA),
                           m.dest - m.lengthA, ElementAt(m.temp, m.cursorTemp)),
     !.minGallop = m.stored]

\* MergeHigh(baseA, lengthA, baseB, lengthB): the neighbouring runs A and B merged from the
\* right through a copy of B, B being the shorter
MergeHigh(sortState, baseA, lengthA, baseB, lengthB, order) ==
  MergeHighEnd(sortState,
               MergeHighBody(MergeHighStart(sortState, baseA, lengthA, baseB, lengthB), order))

\* MergeAt(n) on the stack: the runs n and n + 1 become one run
MergedRuns(runs, n) ==
  SubSeq([runs EXCEPT ![n + 1] = [base |-> runs[n + 1].base,
                                  length |-> runs[n + 1].length + runs[n + 2].length],
                      ![n + 2] = IF n = Len(runs) - 3 THEN runs[n + 3] ELSE @],
         1, Len(runs) - 1)

\* MergeAt once the rows of B that are in place already are left out (lengthB rows remain)
MergeAtBoth(sortState, baseA, lengthA, baseB, lengthB, order) ==
  IF lengthB = 0 THEN sortState
  ELSE IF lengthA <= lengthB THEN MergeLow(sortState, baseA, lengthA, baseB, lengthB, order)
  ELSE MergeHigh(sortState, baseA, lengthA, baseB, lengthB, order)

\* MergeAt once the k rows of A that are in place already are left out
MergeAtRest(sortState, baseA, lengthA, runB, order) ==
  IF lengthA = 0 THEN sortState
  ELSE MergeAtBoth(sortState, baseA, lengthA, runB.base,
                   GallopLeft(sortState.rows, ElementAt(sortState.rows, baseA + lengthA - 1),
                              runB.base, runB.length, runB.length - 1, order),
                   order)
MergeAtFrom(sortState, runA, runB, k, order) ==
  MergeAtRest(sortState, runA.base + k, runA.length - k, runB, order)

\* MergeAt(n): the runs n and n + 1 of the stack become one; the rows of A that are in
\* place already and the rows of B that are in place already are left out of the merge
MergeAt(sortState, n, order) ==
  MergeAtFrom([sortState EXCEPT !.pendingRuns = MergedRuns(@, n)],
              sortState.pendingRuns[n + 1], sortState.pendingRuns[n + 2],
              GallopRight(sortState.rows,
                          ElementAt(sortState.rows, sortState.pendingRuns[n + 2].base),
                          sortState.pendingRuns[n + 1].base, sortState.pendingRuns[n + 1].length,
                          0, order),
              order)

\* GetPendingRunLength(pendingRuns, n)
RunLengthAt(runs, n) == runs[n + 1].length

\* RunInvariantEstablished(pendingRuns, n): run n - 2 is longer than the two after it together
RunInvariantEstablished(runs, n) ==
  IF n < 2 THEN TRUE ELSE RunLengthAt(runs, n - 2) > RunLengthAt(runs, n - 1) + RunLengthAt(runs, n)

\* MergeCollapse: runs merged until the lengths on the stack decrease fast enough
RECURSIVE MergeCollapse(_, _)
MergeCollapse(sortState, order) ==
  LET runs == sortState.pendingRuns
      n == Len(runs) - 2
  IN IF Len(runs) <= 1 THEN sortState
     ELSE IF ~RunInvariantEstablished(runs, n + 1) \/ ~RunInvariantEstablished(runs, n)
       THEN MergeCollapse(MergeAt(sortState,
                                  IF RunLengthAt(runs, n - 1) < RunLengthAt(runs, n + 1)
                                    THEN n - 1 ELSE n,
                                  order), order)
     ELSE IF RunLengthAt(runs, n) <= RunLengthAt(runs, n + 1)
       THEN MergeCollapse(MergeAt(sortState, n, order), order)
     ELSE sortState

\* MergeForceCollapse: the runs left on the stack merged into one
RECURSIVE MergeForceCollapse(_, _)
MergeForceCollapse(sortState, order) ==
  LET runs == sortState.pendingRuns
      n == Len(runs) - 2
  IN IF Len(runs) <= 1 THEN sortState
     ELSE MergeForceCollapse(MergeAt(sortState,
                                     IF n > 0 /\ RunLengthAt(runs, n - 1) < RunLengthAt(runs, n + 1)
                                       THEN n - 1 ELSE n,
                                     order), order)

\* ArrayTimSortImpl's loop: the run at low made and brought to the minimum run length,
\* pushed on the stack, and the stack collapsed, until no row remains
RECURSIVE PushRuns(_, _, _, _, _)
PushRuns(sortState, low, remaining, minRunLength, order) ==
  IF remaining = 0 THEN sortState
  ELSE LET run == CountAndMakeRun(sortState.rows, low, low + remaining, order)
           forcedRunLength == IF minRunLength < remaining THEN minRunLength ELSE remaining
           currentRunLength == IF run.runLength < minRunLength THEN forcedRunLength
                               ELSE run.runLength
           rows == IF run.runLength < minRunLength
                     THEN BinaryInsertionSort(run.rows, low, low + run.runLength,
                                              low + forcedRunLength, order)
                     ELSE run.rows
           pushed == [sortState EXCEPT
                        !.rows = rows,
                        !.pendingRuns = Append(@, [base |-> low, length |-> currentRunLength])]
       IN PushRuns(MergeCollapse(pushed, order), low + currentRunLength,
                   remaining - currentRunLength, minRunLength, order)

\* ArrayTimSortImpl
ArrayTimSortImpl(rows, order) ==
  MergeForceCollapse(PushRuns([rows |-> rows, pendingRuns |-> <<>>, minGallop |-> MinGallopWins],
                              0, Len(rows), ComputeMinRunLength(Len(rows)), order),
                     order).rows

\* rows.sort(compareFn)
Sort(rows, order) == IF Len(rows) < 2 THEN rows ELSE ArrayTimSortImpl(rows, order)

\* rows.slice(0, topN)
Slice0(rows, topN) == SubSeq(rows, 1, IF topN < Len(rows) THEN topN ELSE Len(rows))

\* the rows of the entries with count > 0, in the Map's order
Rows(statsMap) ==
  LET kept == SelectSeq(statsMap, LAMBDA e : Len(e.durations) # 0)
  IN [x \in 1..Len(kept) |-> NodeRow(kept[x])]

\* NodeStatisticsAnalyzer.analyze(tasks)
analyze(tsks) == Sort(Rows(AnalyzeTasks(tsks, Len(tsks))), "avgDuration")

\* NodeStatisticsAnalyzer.getTopSlowest(tasks, topN)
getTopSlowest(tsks, topN) == Slice0(analyze(tsks), topN)

\* NodeStatisticsAnalyzer.getTopFrequent(tasks, topN)
getTopFrequent(tsks, topN) == Slice0(Sort(analyze(tsks), "count"), topN)

\* NodeStatisticsAnalyzer.getTopFailed(tasks, topN)
getTopFailed(tsks, topN) ==
  Slice0(Sort(SelectSeq(analyze(tsks), LAMBDA r : r.failCount > 0), "failRatio"), topN)

\* faulty variant of InRange: an hour is in range
InRangeClosed(duration) == Ge(duration, Num(0)) /\ ~Gt(duration, Num(HourMs))
\* analyzeRecognitionAction: recognitionDuration >= 0 && recognitionDuration < 3600000
InRange(duration) == Ge(duration, Num(0)) /\ Lt(duration, Num(HourMs))

\* analyzeRecognitionAction: the body of the loop over a task's nodes
RecoActionNode(statsMap, node) ==
  LET attempts == node.recognition_attempts
      withEntry == IF EntryOf(statsMap, node.name) = 0
                     THEN Append(statsMap, [name |-> node.name, recognitionDurations |-> <<>>,
                                            actionDurations |-> <<>>, recognitionAttempts |-> <<>>,
                                            successCount |-> 0, failCount |-> 0])
                     ELSE statsMap
      x == EntryOf(withEntry, node.name)
      firstAttemptTime == DateGetTime(attempts[1].timestamp)
      lastAttemptTime == DateGetTime(attempts[Len(attempts)].timestamp)
      recognitionDuration == Minus(lastAttemptTime, firstAttemptTime)
      actionDuration == Minus(DateGetTime(node.timestamp), lastAttemptTime)
  IN IF Len(attempts) = 0 THEN statsMap
     ELSE [withEntry EXCEPT ![x] =
             [@ EXCEPT !.recognitionAttempts = Append(@, Len(attempts)),
                       !.recognitionDurations =
                          IF Len(attempts) > 1 /\ InRange(recognitionDuration)
                            THEN Append(@, recognitionDuration) ELSE @,
                       !.actionDurations =
                          IF InRange(actionDuration) THEN Append(@, actionDuration) ELSE @,
                       !.successCount = IF node.status = "success" THEN @ + 1 ELSE @,
                       !.failCount = IF node.status = "success" THEN @ ELSE @ + 1]]

RECURSIVE RecoActionNodes(_, _, _)
RecoActionNodes(statsMap, task, upTo) ==
  IF upTo = 0 THEN statsMap
  ELSE RecoActionNode(RecoActionNodes(statsMap, task, upTo - 1), task.nodes[upTo])

RECURSIVE RecoActionTasks(_, _)
RecoActionTasks(tsks, upTo) ==
  IF upTo = 0 THEN NewStatsMap("analyzeRecognitionAction")
  ELSE RecoActionNodes(RecoActionTasks(tsks, upTo - 1), tsks[upTo], Len(tsks[upTo].nodes))

RECURSIVE SumInts(_)
SumInts(ns) == IF ns = <<>> THEN 0 ELSE SumInts(SubSeq(ns, 1, Len(ns) - 1)) + ns[Len(ns)]

\* analyzeRecognitionAction: the row of one statsMap entry
RecoActionRow(entry) ==
  LET count == entry.successCount + entry.failCount
      recognitionCount == Len(entry.recognitionDurations)
      totalRecognitionDuration == Sum(entry.recognitionDurations)
      actionCount == Len(entry.actionDurations)
      totalActionDuration == Sum(entry.actionDurations)
      totalRecognitionAttempts == SumInts(entry.recognitionAttempts)
  IN [name |-> entry.name,
      count |-> count,
      avgRecognitionDuration |->
        IF recognitionCount > 0 THEN Div(totalRecognitionDuration, recognitionCount) ELSE Ratio(0, 1),
      minRecognitionDuration |->
        IF recognitionCount > 0 THEN MathMin(entry.recognitionDurations) ELSE Num(0),
      maxRecognitionDuration |->
        IF recognitionCount > 0 THEN MathMax(entry.recognitionDurations) ELSE Num(0),
      totalRecognitionDuration |-> totalRecognitionDuration,
      recognitionCount |-> recognitionCount,
      avgActionDuration |->
        IF actionCount > 0 THEN Div(totalActionDuration, actionCount) ELSE Ratio(0, 1),
      minActionDuration |-> IF actionCount > 0 THEN MathMin(entry.actionDurations) ELSE Num(0),
      maxActionDuration |-> IF actionCount > 0 THEN MathMax(entry.actionDurations) ELSE Num(0),
      totalActionDuration |-> totalActionDuration,
      actionCount |-> actionCount,
      avgRecognitionAttempts |-> Div(Num(totalRecognitionAttempts), Len(entry.recognitionAttempts)),
      totalRecognitionAttempts |-> totalRecognitionAttempts,
      successCount |-> entry.successCount,
      failCount |-> entry.failCount,
      successRate |-> Times100(Quotient(entry.successCount, count))]

RecoActionRows(statsMap) ==
  LET kept == SelectSeq(statsMap, LAMBDA e : e.successCount + e.failCount # 0)
  IN [x \in 1..Len(kept) |-> RecoActionRow(kept[x])]

\* NodeStatisticsAnalyzer.analyzeRecognitionAction(tasks)
analyzeRecognitionAction(tsks) ==
  Sort(RecoActionRows(RecoActionTasks(tsks, Len(tsks))), "avgActionDuration")

-----------------------------------------------------------------------------
(* The analyzer's callers: one action per static method *)

Call(name, topN) == [name |-> name, topN |-> topN]
TopNs == {1, DefaultTopN}
parserVars == <<alphabet, limit, events, hEvents, pc, i, tasks, taskMap, ti, evIdx, locals,
                returned, hNodeEvent, fileVars>>

\* the statsMap a call of analyze leaves behind
AnalyzeMap == [method |-> "analyze", entries |-> AnalyzeTasks(forest, Len(forest))]
\* the statsMap a call of analyzeRecognitionAction leaves behind
RecoActionMap ==
  [method |-> "analyzeRecognitionAction", entries |-> RecoActionTasks(forest, Len(forest))]

Analyze ==
  /\ stats' = analyze(forest)
  /\ callStatsMap' = AnalyzeMap
  /\ op' = Call("analyze", 0)
  /\ UNCHANGED <<forest, parserVars>>

AnalyzeRecognitionAction ==
  /\ stats' = analyzeRecognitionAction(forest)
  /\ callStatsMap' = RecoActionMap
  /\ op' = Call("analyzeRecognitionAction", 0)
  /\ UNCHANGED <<forest, parserVars>>

GetTopSlowest ==
  \E topN \in TopNs :
    /\ stats' = getTopSlowest(forest, topN)
    /\ callStatsMap' = AnalyzeMap
    /\ op' = Call("getTopSlowest", topN)
    /\ UNCHANGED <<forest, parserVars>>

GetTopFrequent ==
  \E topN \in TopNs :
    /\ stats' = getTopFrequent(forest, topN)
    /\ callStatsMap' = AnalyzeMap
    /\ op' = Call("getTopFrequent", topN)
    /\ UNCHANGED <<forest, parserVars>>

GetTopFailed ==
  \E topN \in TopNs :
    /\ stats' = getTopFailed(forest, topN)
    /\ callStatsMap' = AnalyzeMap
    /\ op' = Call("getTopFailed", topN)
    /\ UNCHANGED <<forest, parserVars>>

NextStats == Analyze \/ AnalyzeRecognitionAction \/ GetTopSlowest \/ GetTopFrequent \/ GetTopFailed

\* The forests handed to the analyzer: at most MaxStatTasks tasks, MaxStatNodes nodes and
\* MaxStatAttempts recognition attempts in all; a task of a forest of several tasks has a node.
StatNames == {"A", "B"}
StatStatuses == {"success", "failed"}
StatTimes == {T0, TH, TH1, TBad}
StatAttemptTimes == {T0, TH}
StatEndTimes == {"", TH1}

StatAttempt(ts) ==
  [reco_id |-> 1, name |-> "R", timestamp |-> ts, status |-> "failed", nested_nodes |-> <<>>]

StatNode(name, status, ts, attemptTimes) ==
  [node_id |-> 1, name |-> name, timestamp |-> ts, status |-> status, task_id |-> 1,
   next_list |-> <<>>,
   recognition_attempts |-> [x \in 1..Len(attemptTimes) |-> StatAttempt(attemptTimes[x])],
   nested_action_nodes |-> <<>>, nested_recognition_in_action |-> <<>>]

\* task taskId with the nodes ns, which get its task_id and the node_ids 1, 2, ...
StatTask(taskId, endTime, ns) ==
  [task_id |-> taskId, entry |-> "", uuid |-> "", start_time |-> T0, end_time |-> endTime,
   status |-> IF endTime = "" THEN "running" ELSE "succeeded",
   nodes |-> [x \in 1..Len(ns) |-> [ns[x] EXCEPT !.task_id = taskId, !.node_id = x]],
   duration |-> IF endTime = "" THEN Undefined ELSE Minus(DateGetTime(endTime), DateGetTime(T0)),
   startEventIndex |-> 1, endEventIndex |-> IF endTime = "" THEN 0 ELSE Len(ns) + 2]

\* the sequences of n timestamps
RECURSIVE TimeLists(_)
TimeLists(n) ==
  IF n = 0 THEN {<<>>} ELSE {Append(l, ts) : l \in TimeLists(n - 1), ts \in StatAttemptTimes}

\* the lists of n nodes with at most a attempts in all
RECURSIVE NodeLists(_, _)
NodeLists(n, a) ==
  IF n = 0 THEN {<<>>}
  ELSE UNION {{Append(l, StatNode(name, status, ts, att)) :
                 l \in NodeLists(n - 1, a - own), name \in StatNames, status \in StatStatuses,
                 ts \in StatTimes, att \in TimeLists(own)} : own \in 0..a}

\* the ways to cut a non-empty list of nodes into at most m tasks, each with a node
RECURSIVE TaskLists(_, _)
TaskLists(ns, m) ==
  IF ns = <<>> THEN {<<>>}
  ELSE IF m = 0 THEN {}
  ELSE UNION {{<<StatTask(m, e, SubSeq(ns, 1, cut))>> \o rest :
                 e \in StatEndTimes, rest \in TaskLists(SubSeq(ns, cut + 1, Len(ns)), m - 1)} :
              cut \in 1..Len(ns)}

StatForests(maxNodes) ==
  {<<>>} \cup {<<StatTask(1, e, <<>>)>> : e \in StatEndTimes}
    \cup UNION {TaskLists(ns, MaxStatTasks) :
                  ns \in UNION {NodeLists(n, MaxStatAttempts) : n \in 1..maxNodes}}

InitStats ==
  /\ events = <<>> /\ alphabet = {} /\ limit = 0
  /\ InitPasses
  /\ InitNoFile
  /\ forest \in StatForests(MaxStatNodes)
  /\ stats = <<>>
  /\ callStatsMap = NoStatsMap
  /\ op = Call("none", 0)

SpecStats == InitStats /\ [][NextStats]_vars

\* The forests the success rate is looked at with: one task of at most MaxRateNodes nodes,
\* each with one recognition attempt or none, all timestamps well-formed, so that both
\* analyze and analyzeRecognitionAction count a name up to MaxRateNodes times.
RateTimes == {T0, T1}
RateEndTimes == {"", T1}
RateAttempts == {<<>>, <<T0>>}

RECURSIVE RateNodeLists(_)
RateNodeLists(n) ==
  IF n = 0 THEN {<<>>}
  ELSE {Append(l, StatNode(name, status, ts, att)) :
          l \in RateNodeLists(n - 1), name \in StatNames, status \in StatStatuses,
          ts \in RateTimes, att \in RateAttempts}

RateForests(maxNodes) ==
  {<<StatTask(1, e, ns)>> :
     e \in RateEndTimes, ns \in UNION {RateNodeLists(n) : n \in 1..maxNodes}}

InitRate ==
  /\ events = <<>> /\ alphabet = {} /\ limit = 0
  /\ InitPasses
  /\ InitNoFile
  /\ forest \in RateForests(MaxRateNodes)
  /\ stats = <<>>
  /\ callStatsMap = NoStatsMap
  /\ op = Call("none", 0)

SpecRate == InitRate /\ [][NextStats]_vars

-----------------------------------------------------------------------------
(* The statistics view (src/unnamed/part_001): its two upload handlers, one action per run
   between two awaits.  A handler call occupies a slot s from its arrival to its return.
   Every processLogContent call creates its own parser: parseFile is followed chunk by chunk
   through startIdx and the progress it reports, getTasks() through the tasks it returns. *)

Slots == 1..MaxOverlap

\* the files uploaded: one line that starts task 1; 1500 lines (two chunks) with no event,
\* or with the start of task 1; three lines, task 1 started and closed, then task 2 started
ViewFiles ==
  {File(1, <<TaskStarting(1, "a", "Main", T0)>>),
   File(ChunkSize + 500, <<>>),
   File(ChunkSize + 500, <<TaskStarting(1, "a", "Main", T0)>>),
   File(3, <<TaskStarting(1, "a", "Main", T0), TaskSucceeded(1, "a", TH1),
             TaskStarting(2, "b", "Main", T0)>>)}

\* getTasks() on a buffer of task starts and closes: pass 1, then for every task a
\* getTaskNodes call that finds no node event, then the filter
GetTasksOfTaskLog(evs) ==
  LET found == Pass1UpTo(evs, Len(evs)).tasks
  IN FilterPostStop([t \in 1..Len(found) |-> WithRunningDuration(found[t])])

nonViewVars == <<alphabet, limit, events, hEvents, pc, i, tasks, taskMap, ti, evIdx, locals,
                 returned, hNodeEvent, statVars, fileConfig, fileState, calls, app, scan>>

\* faulty variant of Busy: the lock is not looked at
NeverBusy(v) == FALSE
\* if (isUploading.value)
Busy(v) == v.isUploading

\* the handler's finally block, and its return
HandlerFinally(v, s) ==
  [v EXCEPT !.loading = IF v.handler[s] = "handleFileUpload" THEN FALSE ELSE @,
            !.isUploading = FALSE,
            !.at[s] = "idle",
            !.handler[s] = "none",
            !.content[s] = NoFile,
            !.startIdx[s] = 0]

\* faulty variant of ProcessFinally: processLogContent without its finally block
ProcessNoFinally(v) == v
\* processLogContent's finally block
ProcessFinally(v) == [v EXCEPT !.showParsingModal = FALSE, !.parseProgress = 0]

\* processLogContent(content) up to the first await of parseFile, on a new parser
ProcessLogContent(v, s, file) ==
  [v EXCEPT !.showParsingModal = TRUE,
            !.parseProgress = 0,
            !.content[s] = file,
            !.startIdx[s] = 0,
            !.at[s] = "parseFile"]

\* handleFileUpload(file) arrives and runs to its await of file.text(), or returns at once
HandleFileUpload(s) ==
  /\ view.at[s] = "idle"
  /\ view.arrivals < MaxUploads
  /\ view' = IF Busy(view)
               THEN [view EXCEPT !.arrivals = @ + 1]
               ELSE [view EXCEPT !.arrivals = @ + 1,
                                 !.isUploading = TRUE,
                                 !.loading = TRUE,
                                 !.handler[s] = "handleFileUpload",
                                 !.at[s] = "text"]
  /\ UNCHANGED nonViewVars

\* file.text() settles: with the content of the file, and processLogContent starts, or with
\* an error
FileText(s) ==
  /\ view.at[s] = "text"
  /\ \/ \E file \in ViewFiles : view' = ProcessLogContent(view, s, file)
     \/ view' = HandlerFinally(view, s)
  /\ UNCHANGED nonViewVars

\* handleTauriFileSelect() arrives and runs to its await of the dialog, or returns at once
HandleTauriFileSelect(s) ==
  /\ view.at[s] = "idle"
  /\ view.arrivals < MaxUploads
  /\ view' = IF Busy(view)
               THEN [view EXCEPT !.arrivals = @ + 1]
               ELSE [view EXCEPT !.arrivals = @ + 1,
                                 !.isUploading = TRUE,
                                 !.showFileLoadingModal = TRUE,
                                 !.handler[s] = "handleTauriFileSelect",
                                 !.at[s] = "dialog"]
  /\ UNCHANGED nonViewVars

\* openLogFileDialog() settles: with the content of a file, with null (the dialog was
\* cancelled) or with an error
OpenLogFileDialog(s) ==
  /\ view.at[s] = "dialog"
  /\ LET closed == [view EXCEPT !.showFileLoadingModal = FALSE]
     IN \/ \E file \in ViewFiles : view' = ProcessLogContent(closed, s, file)
        \/ \E settled \in {"cancelled", "error"} : view' = HandlerFinally(closed, s)
  /\ UNCHANGED nonViewVars

\* a timer of parseFile fires: the chunk is parsed and its progress reported, then the next
\* timer is awaited; after the last chunk parseFile returns and, in the same run,
\* processLogContent takes the tasks getTasks() gives and awaits its own timer.  An
\* exception in the run leaves processLogContent through its finally block and the handler
\* through its own.
ParseFileChunk(s) ==
  /\ view.at[s] = "parseFile"
  /\ LET file == view.content[s]
         endIdx == EndIdx(view.startIdx[s], ChunkSize, file.totalLines)
         reported == [view EXCEPT !.parseProgress = Percentage(endIdx, file.totalLines),
                                  !.startIdx[s] = @ + ChunkSize]
     IN \/ view' = IF view.startIdx[s] + ChunkSize < file.totalLines
                     THEN reported
                     ELSE [reported EXCEPT !.useLocalData = TRUE,
                                           !.localTasks = GetTasksOfTaskLog(file.events),
                                           !.at[s] = "timer"]
        \/ view' = HandlerFinally(ProcessFinally(view), s)
  /\ UNCHANGED nonViewVars

\* processLogContent's timer fires: uploadKey++, then the two finally blocks
TimerFired(s) ==
  /\ view.at[s] = "timer"
  /\ view' = HandlerFinally(ProcessFinally([view EXCEPT !.uploadKey = @ + 1]), s)
  /\ UNCHANGED nonViewVars

NextView ==
  \E s \in Slots :
    \/ HandleFileUpload(s)
    \/ FileText(s)
    \/ HandleTauriFileSelect(s)
    \/ OpenLogFileDialog(s)
    \/ ParseFileChunk(s)
    \/ TimerFired(s)

InitView == events = <<>> /\ alphabet = {} /\ limit = 0 /\ InitRest

SpecView == InitView /\ [][NextView]_vars

\* every promise a handler awaits settles: the file is read, the dialog is closed, parseFile
\* ends, the timer fires
FairView ==
  \A s \in Slots :
    /\ WF_vars(FileText(s))
    /\ WF_vars(OpenLogFileDialog(s))
    /\ WF_vars(ParseFileChunk(s))
    /\ WF_vars(TimerFired(s))

SpecViewFair == SpecView /\ FairView

-----------------------------------------------------------------------------
(* App.vue (src/src/App.vue): its two upload handlers on the one LogParser of the
   application, one action per run between two awaits.  The continuation of `await
   parser.parseFile` is a microtask of the run that ends parseFile, and getTasks() is
   synchronous: from the last chunk to AppShowTasks (an upload is at "getTasks") the steps
   of getTasks() are the only ones taken. *)

\* log lines of two processes: task 1 started in Px1/Tx1 or in Px2/Tx2, a node of task 1,
\* task 2 started in Px2/Tx2
AppLines ==
  {NotifyLine("Px1", "Tx1", TaskStarting(1, "a", "Main", T0)),
   NotifyLine("Px2", "Tx2", TaskStarting(1, "a", "Main", T0)),
   NotifyLine("Px1", "Tx1", PipelineNode("Succeeded", 1, 10, "X", T1)),
   NotifyLine("Px2", "Tx2", TaskStarting(2, "b", "Main", T0))}

nonAppVars == <<alphabet, limit, hNodeEvent, ti, evIdx, locals, returned, statVars, fileConfig,
                content, onProgress, startIdx, lineNum, fEvents, reports, parses, fpc, view,
                scan>>

\* a run of processLogContent is inside or just past its getTasks() call: the run goes on to
\* AppShowTasks before any other handler or timer runs
GetTasksRunning == \E s \in Slots : app.uploads[s].at = "getTasks"

\* processLogContent's finally block, then the handler's
AppFinally(a, s) ==
  [a EXCEPT !.showParsingModal = FALSE,
            !.parseProgress = 0,
            !.loading = FALSE,
            !.uploads[s].at = "idle",
            !.finished = @ + 1]

\* processLogContent(c) up to the first await of parseFile: the refs are reset, the modal is
\* shown
AppProcessLogContent(a, s, c) ==
  [a EXCEPT !.tasks = <<>>,
            !.availableProcessIds = <<>>,
            !.availableThreadIds = <<>>,
            !.showParsingModal = TRUE,
            !.parseProgress = 0,
            !.uploads[s] = [at |-> "yield", content |-> c, startIdx |-> 0, events |-> <<>>]]

\* handleFileUpload(file) runs to its await of file.text()
AppHandleFileUpload(s) ==
  /\ ~GetTasksRunning
  /\ app.uploads[s].at = "idle"
  /\ app.started < maxParses
  /\ app' = [app EXCEPT !.loading = TRUE, !.uploads[s].at = "text", !.started = @ + 1]
  /\ UNCHANGED <<events, hEvents, pc, i, tasks, taskMap, calls, processIds, threadIds,
                 taskProcessMap, taskThreadMap, nonAppVars>>

\* file.text() settles.  With the content of the file: processLogContent resets the refs,
\* parseFile clears the parser's four collections and awaits its first timer.  With an
\* error: the handler's finally block.
AppFileText(s) ==
  /\ ~GetTasksRunning
  /\ app.uploads[s].at = "text"
  /\ \/ /\ \E c \in Contents(lineAlphabet, maxLines) \ {<<>>} :
            app' = AppProcessLogContent(app, s, c)
        /\ processIds' = {}
        /\ threadIds' = {}
        /\ taskProcessMap' = Cleared(taskProcessMap)
        /\ taskThreadMap' = Cleared(taskThreadMap)
     \/ /\ app' = [app EXCEPT !.loading = FALSE,
                               !.uploads[s].at = "idle",
                               !.finished = @ + 1]
        /\ UNCHANGED <<processIds, threadIds, taskProcessMap, taskThreadMap>>
  /\ UNCHANGED <<events, hEvents, pc, i, tasks, taskMap, calls, nonAppVars>>

\* handleContentUpload(content): processLogContent resets the refs, parseFile clears the
\* parser's four collections and awaits its first timer
AppHandleContentUpload(s) ==
  /\ ~GetTasksRunning
  /\ app.uploads[s].at = "idle"
  /\ app.started < maxParses
  /\ \E c \in Contents(lineAlphabet, maxLines) \ {<<>>} :
       app' = AppProcessLogContent([app EXCEPT !.loading = TRUE, !.started = @ + 1], s, c)
  /\ processIds' = {}
  /\ threadIds' = {}
  /\ taskProcessMap' = Cleared(taskProcessMap)
  /\ taskThreadMap' = Cleared(taskThreadMap)
  /\ UNCHANGED <<events, hEvents, pc, i, tasks, taskMap, calls, nonAppVars>>

\* a timer of parseFile fires: the chunk's lines, the progress report, the next timer; after
\* the last chunk this.events = events, parseFile returns and processLogContent goes on to
\* call getTasks()
AppChunk(s) ==
  /\ ~GetTasksRunning
  /\ app.uploads[s].at = "yield"
  /\ LET up == app.uploads[s]
         total == Len(up.content)
         endIdx == EndIdx(up.startIdx, chunkSize, total)
         st == LinesLoop(ParseState(up.events, processIds, threadIds, taskProcessMap,
                                    taskThreadMap),
                         up.content, FirstLine(up.startIdx), endIdx)
         reported == [app EXCEPT !.parseProgress = Percentage(endIdx, total),
                                 !.uploads[s].events = st.events,
                                 !.uploads[s].startIdx = up.startIdx + chunkSize]
     IN /\ processIds' = st.processIds
        /\ threadIds' = st.threadIds
        /\ taskProcessMap' = st.taskProcessMap
        /\ taskThreadMap' = st.taskThreadMap
        /\ IF st.threw
             THEN /\ app' = AppFinally([app EXCEPT !.uploads[s].events = st.events], s)
                  /\ UNCHANGED <<events, hEvents, pc, i, tasks, taskMap, calls>>
             ELSE IF up.startIdx + chunkSize < total
               THEN /\ app' = reported
                    /\ UNCHANGED <<events, hEvents, pc, i, tasks, taskMap, calls>>
               ELSE /\ app' = [reported EXCEPT !.uploads[s].at = "getTasks"]
                    /\ events' = st.events
                    /\ hEvents' = st.events
                    /\ pc' = "pass1"
                    /\ i' = 1
                    /\ tasks' = <<>>
                    /\ taskMap' = {}
                    /\ calls' = calls + 1
  /\ UNCHANGED nonAppVars

\* getTasks() has returned: the refs take the tasks and the parser's ids, then the finally
\* blocks
AppShowTasks(s) ==
  /\ pc = "done"
  /\ app.uploads[s].at = "getTasks"
  /\ app' = AppFinally([app EXCEPT !.tasks = returned,
                                   !.availableProcessIds = getProcessIds,
                                   !.availableThreadIds = getThreadIds], s)
  /\ UNCHANGED <<events, hEvents, pc, i, tasks, taskMap, calls, processIds, threadIds,
                 taskProcessMap, taskThreadMap, nonAppVars>>

NextApp ==
  \/ \E s \in Slots :
       \/ AppHandleFileUpload(s)
       \/ AppFileText(s)
       \/ AppHandleContentUpload(s)
       \/ AppChunk(s)
       \/ AppShowTasks(s)
  \/ Pass1Step \/ Pass1End \/ NodeStep \/ EndTask \/ Return

\* two uploads of at most MaxLines - 1 lines
InitApp ==
  /\ events = <<>> /\ alphabet = {} /\ limit = 0
  /\ InitPasses
  /\ forest = <<>> /\ stats = <<>> /\ op = [name |-> "none", topN |-> 0]
  /\ callStatsMap = NoStatsMap
  /\ InitFileState
  /\ lineAlphabet = AppLines
  /\ maxLines = MaxLines - 1
  /\ maxParses = MaxOverlap
  /\ chunkSize = ChunkSize

SpecApp == InitApp /\ [][NextApp]_vars

-----------------------------------------------------------------------------
(* parseMessageAndParams (src/unnamed/part_002): the extraction of the bracketed
   parameters, one action per iteration of the loop over i.  A message is a sequence of
   characters; message[i] of the code is message[i + 1] here. *)

MessageChars == {"[", "]", "{", "}", "a"}

\* the messages of at most n characters
RECURSIVE Messages(_)
Messages(n) ==
  IF n = 0 THEN {<<>>}
  ELSE Messages(n - 1)
         \cup {Append(m, c) : m \in {x \in Messages(n - 1) : Len(x) = n - 1}, c \in MessageChars}

nonScanVars == <<alphabet, limit, events, hEvents, pc, i, tasks, taskMap, ti, evIdx, locals,
                 returned, hNodeEvent, statVars, fileConfig, fileState, calls, view, app>>

\* faulty variant of BracketStep: braces are not tracked
BracketStepNoBraces(st, c) ==
  [j |-> st.j + 1,
   braceDepth |-> 0,
   depth |-> CASE c = "[" -> st.depth + 1
               [] c = "]" -> st.depth - 1
               [] OTHER -> st.depth]
\* the body of the loop over j
BracketStep(st, c) ==
  [j |-> st.j + 1,
   braceDepth |-> CASE c = "{" -> st.braceDepth + 1
                    [] c = "}" -> st.braceDepth - 1
                    [] OTHER -> st.braceDepth,
   depth |-> CASE c = "[" /\ st.braceDepth = 0 -> st.depth + 1
               [] c = "]" /\ st.braceDepth = 0 -> st.depth - 1
               [] OTHER -> st.depth]

\* while (j < message.length && (depth > 0 || braceDepth > 0))
RECURSIVE BracketLoop(_, _)
BracketLoop(message, st) ==
  IF st.j < Len(message) /\ (st.depth > 0 \/ st.braceDepth > 0)
    THEN BracketLoop(message, BracketStep(st, message[st.j + 1]))
    ELSE st

\* parseMessageAndParams(message) is called
ParseMessageAndParams ==
  /\ scan.at = "idle"
  /\ \E message \in Messages(MaxMessage) :
       scan' = [message |-> message, i |-> 0, extractedParams |-> <<>>, spans |-> <<>>,
                at |-> "scan"]
  /\ UNCHANGED nonScanVars

\* one iteration of while (i < message.length)
ScanStep ==
  /\ scan.at = "scan"
  /\ scan.i < Len(scan.message)
  /\ LET message == scan.message
         st == BracketLoop(message, [j |-> scan.i + 1, depth |-> 1, braceDepth |-> 0])
     IN scan' = IF message[scan.i + 1] = "[" /\ st.depth = 0
                  THEN [scan EXCEPT !.extractedParams =
                                       Append(@, SubSeq(message, scan.i + 2, st.j - 1)),
                                    !.spans = Append(@, [from |-> scan.i + 1, to |-> st.j]),
                                    !.i = st.j]
                  ELSE [scan EXCEPT !.i = @ + 1]
  /\ UNCHANGED nonScanVars

\* the loop over i ends; the call's locals are gone when it returns
ScanEnd ==
  /\ scan.at = "scan"
  /\ scan.i >= Len(scan.message)
  /\ scan' = NoScan
  /\ UNCHANGED nonScanVars

NextScan == ParseMessageAndParams \/ ScanStep \/ ScanEnd

InitScan == InitParser /\ alphabet = {} /\ limit = 0

SpecScan == InitScan /\ [][NextScan]_vars

-----------------------------------------------------------------------------
(* Properties of the reconstruction *)

\* the nodes of task t so far: the live list while getTaskNodes(t) runs, task.nodes otherwise
CurNodes(t) == IF pc = "pass2" /\ t = ti THEN nodes ELSE tasks[t].nodes

Reconstructing == pc \in {"pass2", "done"}

\* the indices of the task's slice of the consumed buffer
Slice(task) == task.startEventIndex .. SliceEnd(task, hEvents)

\* the completion events of the task's slice that carry the task's id and node id nodeId
Completions(task, nodeId) ==
  {e \in Slice(task) : /\ hEvents[e].message \in PipelineNodeMsgs
                       /\ hEvents[e].details.task_id = task.task_id
                       /\ hEvents[e].details.node_id = nodeId}

FirstCompletion(task, nodeId) ==
  CHOOSE e \in Completions(task, nodeId) : \A f \in Completions(task, nodeId) : e <= f

\* node carries what the completion event carries
BuiltFrom(node, event, task) ==
  /\ event.message \in PipelineNodeMsgs
  /\ event.details.task_id = task.task_id
  /\ node.node_id = event.details.node_id
  /\ node.task_id = task.task_id
  /\ node.timestamp = event.timestamp
  /\ node.name = NodeName(event.details)
  /\ node.status = (IF event.message = "Node.PipelineNode.Succeeded" THEN "success" ELSE "failed")

NodeIdsDistinct(ns) == \A a, b \in 1..Len(ns) : a # b => ns[a].node_id # ns[b].node_id

\* C1: every task, while it is reconstructed and as getTasks() returns it, has pairwise
\* distinct node_id values in its nodes, however often a completion event is re-delivered.
C1_NodeIdsUnique ==
  /\ NodeIdsDistinct(nodes)
  /\ \A t \in 1..Len(tasks) : NodeIdsDistinct(tasks[t].nodes)
  /\ \A t \in 1..Len(returned) : NodeIdsDistinct(returned[t].nodes)

\* C1 witness: a returned task with two nodes whose slice held more completion events of
\* the task than it has nodes (a re-delivery)
C1_Witness ==
  /\ pc = "done"
  /\ \E t \in 1..Len(returned) :
       /\ Len(returned[t].nodes) >= 2
       /\ \E id \in {10, 11} : Cardinality(Completions(returned[t], id)) >= 2

\* C4: within each task the nodes are in the order in which the completion events that
\* built them arrived: node a is built from an earlier event than node b whenever a < b.
C4_NodeOrder ==
  Reconstructing =>
    \A t \in 1..Len(tasks) :
      /\ Len(hNodeEvent[t]) = Len(CurNodes(t))
      /\ \A j \in 1..Len(CurNodes(t)) :
           /\ hNodeEvent[t][j] \in Slice(tasks[t])
           /\ BuiltFrom(CurNodes(t)[j], hEvents[hNodeEvent[t][j]], tasks[t])
      /\ \A a, b \in 1..Len(CurNodes(t)) : a < b => hNodeEvent[t][a] < hNodeEvent[t][b]

\* C4 witness: a returned task with two nodes of different node ids
C4_Witness ==
  /\ pc = "done"
  /\ \E t \in 1..Len(tasks) :
       /\ Len(tasks[t].nodes) = 2
       /\ tasks[t].nodes[1].node_id = 11
       /\ tasks[t].nodes[2].node_id = 10

C5_State ==
  Reconstructing =>
    \A t \in 1..Len(tasks) : \A j \in 1..Len(CurNodes(t)) :
      LET node == CurNodes(t)[j]
      IN /\ Len(hNodeEvent[t]) >= j
         /\ hNodeEvent[t][j] = FirstCompletion(tasks[t], node.node_id)
         /\ BuiltFrom(node, hEvents[FirstCompletion(tasks[t], node.node_id)], tasks[t])

C5_Step ==
  (pc = "pass2" /\ pc' = "pass2" /\ ti' = ti) =>
    /\ \A j \in 1..Len(nodes) : Len(nodes') >= j /\ nodes'[j] = nodes[j]
    /\ (/\ events[evIdx].message \in PipelineNodeMsgs
        /\ \E j \in 1..Len(nodes) : nodes[j].node_id = events[evIdx].details.node_id)
       => nodes' = nodes

\* C5: a node is built from the first completion event of the task's slice that carries
\* its node_id, and no later event of the slice (a re-delivery in particular) adds a node
\* for that id or changes a node already built.
C5_FirstCompletionWins == [](C5_State) /\ [][C5_Step]_vars

\* C5 witness: a returned node built from a Succeeded event after which the slice holds a
\* Failed completion event with the same node_id
C5_Witness ==
  /\ pc = "done"
  /\ \E t \in 1..Len(tasks) : \E j \in 1..Len(tasks[t].nodes) :
       /\ tasks[t].nodes[j].status = "success"
       /\ tasks[t].nodes[j].name = "X"
       /\ \E e \in Completions(tasks[t], tasks[t].nodes[j].node_id) :
            e > hNodeEvent[t][j] /\ hEvents[e].message = "Node.PipelineNode.Failed"

\* the log of the round-trip scenario
RoundTripLog(evs) ==
  /\ Len(evs) = 3
  /\ evs[1].message = "Tasker.Task.Starting"
  /\ evs[1].details.task_id = 1 /\ evs[1].details.uuid = "a"
  /\ evs[2].message = "Node.PipelineNode.Succeeded"
  /\ evs[2].details.task_id = 1 /\ evs[2].details.node_id = 10 /\ evs[2].details.name = "X"
  /\ evs[3].message = "Tasker.Task.Succeeded"
  /\ evs[3].details.task_id = 1 /\ evs[3].details.uuid = "a"

\* C6: the round-trip log (task 1/"a" started, node 10 "X" succeeded, task 1/"a"
\* succeeded) makes getTasks() return exactly one task, succeeded, with exactly one node,
\* named "X".
C6_RoundTrip ==
  (pc = "done" /\ RoundTripLog(hEvents)) =>
    /\ Len(returned) = 1
    /\ returned[1].status = "succeeded"
    /\ returned[1].task_id = 1
    /\ Len(returned[1].nodes) = 1
    /\ returned[1].nodes[1].name = "X"
    /\ returned[1].nodes[1].node_id = 10

\* C6 witness: getTasks() has returned for the round-trip log
C6_Witness == pc = "done" /\ RoundTripLog(hEvents) /\ Len(returned) = 1

-----------------------------------------------------------------------------
(* Properties of task discovery *)

\* C2: no two tasks, in pass 1's list and in what getTasks() returns, carry the same
\* (uuid, task_id) pair with a non-empty uuid, however many Tasker.Task.Starting events
\* carry the pair and whether or not the earlier task is still open.
C2_TaskIdentityUnique ==
  /\ \A a, b \in 1..Len(returned) :
       (a # b /\ returned[a].uuid # "")
         => ~(returned[a].uuid = returned[b].uuid /\ returned[a].task_id = returned[b].task_id)
  /\ \A a, b \in 1..Len(tasks) :
       (a # b /\ tasks[a].uuid # "")
         => ~(tasks[a].uuid = tasks[b].uuid /\ tasks[a].task_id = tasks[b].task_id)

\* C2 witness: the pair 5/"a" is started, closed and started again, and getTasks() returns
\* at least two tasks
C2_Witness ==
  /\ pc = "done"
  /\ Len(returned) >= 2
  /\ \E e1, e2, e3 \in 1..Len(hEvents) :
       /\ e1 < e2 /\ e2 < e3
       /\ hEvents[e1] = TaskStarting(5, "a", "", T0)
       /\ hEvents[e2] = TaskSucceeded(5, "a", T1)
       /\ hEvents[e3] = TaskStarting(5, "a", "", T0)

\* the log of the FIFO fallback scenario: two starts, then two closes, of task_id 5 with no uuid
FifoLog(evs) ==
  /\ Len(evs) = 4
  /\ \A e \in {1, 2} : evs[e].message = "Tasker.Task.Starting"
  /\ \A e \in {3, 4} : evs[e].message = "Tasker.Task.Succeeded"
  /\ \A e \in 1..4 : evs[e].details.task_id = 5 /\ evs[e].details.uuid = ""

\* C3: on the FIFO fallback log getTasks() yields the two started tasks, the first close
\* event closes the earlier-started task and the second close event the later-started one.
C3_FifoFallback ==
  (pc = "done" /\ FifoLog(hEvents)) =>
    /\ Len(returned) = 2
    /\ returned[1].startEventIndex = 1 /\ returned[1].endEventIndex = 3
    /\ returned[2].startEventIndex = 2 /\ returned[2].endEventIndex = 4

-----------------------------------------------------------------------------
(* Properties of nested reconstruction *)

\* the log of the nested scenario, after the task's start event
NestedLog(evs) ==
  /\ Len(evs) = 6
  /\ evs[1].message = "Tasker.Task.Starting" /\ evs[1].details.task_id = 1
  /\ evs[2].message \in RecognitionMsgs /\ evs[2].details.task_id = 1
  /\ evs[3].message = "Node.Recognition.Succeeded" /\ evs[3].details.task_id = 2
  /\ evs[4].message \in RecognitionMsgs /\ evs[4].details.task_id = 2
  /\ evs[5].message = "Node.RecognitionNode.Succeeded" /\ evs[5].details.task_id = 2
  /\ evs[6].message = "Node.Recognition.Succeeded" /\ evs[6].details.task_id = 1

\* getTaskNodes(task 1) has gone through the whole nested scenario
NestedLogProcessed == pc = "pass2" /\ ti = 1 /\ evIdx = 7 /\ NestedLog(hEvents)

\* C7: after the nested scenario (a recognition of task 1, two recognitions of task 2, the
\* RecognitionNode of task 2, a recognition of task 1) the last event has produced one
\* attempt whose nested_nodes has exactly one entry, whose own nested_nodes are the two
\* task-2 records in arrival order; the first attempt of task 1 has no nested_nodes.
C7_NestedScenario ==
  NestedLogProcessed =>
    /\ Len(recognitionAttempts) = 2
    /\ recognitionAttempts[1].nested_nodes = <<>>
    /\ recognitionAttempts[2].timestamp = hEvents[6].timestamp
    /\ Len(recognitionAttempts[2].nested_nodes) = 1
    /\ recognitionAttempts[2].nested_nodes[1].name = hEvents[5].details.name
    /\ recognitionAttempts[2].nested_nodes[1].nested_nodes
         = <<ChildAttempt(hEvents[3]), ChildAttempt(hEvents[4])>>

\* C7 witness: the scenario is processed with two different task-2 recognitions
C7_Witness ==
  /\ NestedLogProcessed
  /\ hEvents[3].details.reco_id = 201
  /\ hEvents[4].details.reco_id = 202
  /\ Len(recognitionAttempts) = 2

-----------------------------------------------------------------------------
(* Properties of the statistics *)

\* d is a number of [0, 3600000)
InHalfOpenHour(d) == IsNum(d) /\ 0 <= d.v /\ d.v < HourMs
AllInHalfOpenHour(ds) == \A x \in 1..Len(ds) : InHalfOpenHour(ds[x])

\* the analyzeRecognitionAction half of C8: every recognition-phase and action-phase
\* duration it accumulates, and every minimum and maximum it reports, is in [0, 3600000)
RecoActionDurationsInRange ==
  op.name = "analyzeRecognitionAction" =>
    /\ \A x \in 1..Len(stats) :
         /\ InHalfOpenHour(stats[x].minRecognitionDuration)
         /\ InHalfOpenHour(stats[x].maxRecognitionDuration)
         /\ InHalfOpenHour(stats[x].minActionDuration)
         /\ InHalfOpenHour(stats[x].maxActionDuration)
    /\ LET statsMap == RecoActionTasks(forest, Len(forest))
       IN \A x \in 1..Len(statsMap) :
            /\ AllInHalfOpenHour(statsMap[x].recognitionDurations)
            /\ AllInHalfOpenHour(statsMap[x].actionDurations)

\* the analyze half of C8: every duration of every row, and so its minimum and maximum,
\* is in [0, 3600000)
NodeDurationsInRange ==
  op.name = "analyze" =>
    \A x \in 1..Len(stats) :
      /\ AllInHalfOpenHour(stats[x].durations)
      /\ InHalfOpenHour(stats[x].minDuration)
      /\ InHalfOpenHour(stats[x].maxDuration)

\* C8: no duration d with d < 0 or d >= 3,600,000 ms is included in any row of analyze or
\* in the recognition-phase or action-phase durations of analyzeRecognitionAction: the
\* accepted range is the half-open interval [0, 3600000).
C8_OutlierFilter == NodeDurationsInRange /\ RecoActionDurationsInRange

\* the rows of a call carry a successRate in [0, 100]
SuccessRateInRange ==
  \A x \in 1..Len(stats) :
    /\ stats[x].successCount + stats[x].failCount > 0
    /\ stats[x].successRate.kind = "num"
    /\ DoubleLe(ZeroDouble, stats[x].successRate)
    /\ DoubleLe(stats[x].successRate, Quotient(100, 1))

\* C9 as stated: every row emitted by analyze and by analyzeRecognitionAction has
\* successCount + failCount > 0, and its successRate lies in [0, 100] and equals
\* 100 * successCount / (successCount + failCount), the number that expression gives.
C9_AsStated ==
  op.name \in {"analyze", "analyzeRecognitionAction"} =>
    /\ SuccessRateInRange
    /\ \A x \in 1..Len(stats) :
         stats[x].successRate =
           Quotient(100 * stats[x].successCount, stats[x].successCount + stats[x].failCount)

\* C9: every row emitted by analyze and by analyzeRecognitionAction has
\* successCount + failCount > 0, and its successRate lies in [0, 100] and is
\* 100 * successCount / (successCount + failCount) to within one unit in the last place:
\* that number or a neighbour of it among the doubles.
C9_SuccessRate ==
  op.name \in {"analyze", "analyzeRecognitionAction"} =>
    /\ SuccessRateInRange
    /\ \A x \in 1..Len(stats) :
         Neighbours(stats[x].successRate,
                    Quotient(100 * stats[x].successCount,
                             stats[x].successCount + stats[x].failCount))

\* a row of one success and two failures whose successRate, 33.33333333333333, is the
\* double below 100 / 3
OneOfThree(row) ==
  /\ row.successCount = 1
  /\ row.failCount = 2
  /\ row.successRate = Double(<<68266, 174762, 174762>>, 0 - 47)
  /\ NextUp(row.successRate.mant, row.successRate.exp) = Quotient(100, 3)

\* C9 witness: analyzeRecognitionAction emitted a row of one success and two failures for
\* three nodes with an attempt each, and analyze emits such a row for the same forest, from
\* three durations that are numbers
C9_Witness ==
  /\ op.name = "analyzeRecognitionAction"
  /\ \E x \in 1..Len(stats) : OneOfThree(stats[x]) /\ stats[x].actionCount = 3
  /\ \E x \in 1..Len(analyze(forest)) :
       /\ OneOfThree(analyze(forest)[x])
       /\ \A d \in 1..3 : IsNum(analyze(forest)[x].durations[d])

-----------------------------------------------------------------------------
(* Properties of pass 1 *)

\* pass 1 is about to process events[i]
AtPass1Event == pc = "pass1" /\ i <= Len(events)

\* some task of tsks is still open and has the close event's uuid, if that is a uuid in
\* the sense of usesUuid, and the event's task_id otherwise
OpenMatch(tsks, details, usesUuid) ==
  \E x \in 1..Len(tsks) :
    /\ tsks[x].end_time = ""
    /\ IF usesUuid THEN tsks[x].uuid = details.uuid ELSE tsks[x].task_id = details.task_id

C11_Step ==
  (/\ AtPass1Event
   /\ events[i].message \in TaskEndMsgs
   /\ ~OpenMatch(tasks, events[i].details, NonBlank(events[i].details.uuid)))
    => tasks' = tasks

\* C11 (amended): a Tasker.Task.Succeeded/Failed event for which no still-open task
\* matches, by uuid when the event's uuid is not blank (empty or whitespace only) and by
\* task_id otherwise, creates no task and leaves every task unchanged.
C11_UnmatchedCloseIgnored == [][C11_Step]_vars

C11_StepAsStated ==
  (/\ AtPass1Event
   /\ events[i].message \in TaskEndMsgs
   /\ ~OpenMatch(tasks, events[i].details, events[i].details.uuid # ""))
    => tasks' = tasks

\* C11 as stated: the close event matches by uuid whenever its uuid is non-empty, a
\* whitespace-only uuid included; with no such open task every task is left unchanged.
C11_AsStated == [][C11_StepAsStated]_vars

\* C11 witness: pass 1 has just passed a close event with uuid "b", which no task ever
\* carries while task 5 is open
C11_Witness ==
  /\ pc = "pass1"
  /\ i >= 3
  /\ events[i - 1] = TaskSucceeded(5, "b", T1)
  /\ \E x \in 1..Len(tasks) : tasks[x].task_id = 5 /\ tasks[x].end_time = ""

\* the indices of the tasks that do not carry the post-stop entry
KeptTasks == {x \in 1..Len(tasks) : tasks[x].entry # "MaaTaskerPostStop"}

\* C12: getTasks() returns no task whose entry is 'MaaTaskerPostStop' and returns every
\* other task created in pass 1, in the order of their Tasker.Task.Starting events.
C12_PostStopFiltered ==
  pc = "done" =>
    /\ \A r \in 1..Len(returned) : returned[r].entry # "MaaTaskerPostStop"
    /\ Len(returned) = Cardinality(KeptTasks)
    /\ \A x \in KeptTasks : \E r \in 1..Len(returned) : returned[r] = tasks[x]
    /\ \A a, b \in 1..Len(returned) :
         a < b => returned[a].startEventIndex < returned[b].startEventIndex
    /\ \A r \in 1..Len(returned) :
         hEvents[returned[r].startEventIndex].message = "Tasker.Task.Starting"

\* C12 witness: pass 1 created three tasks, the post-stop task between the two others
C12_Witness ==
  /\ pc = "done"
  /\ Len(tasks) = 3
  /\ tasks[2].entry = "MaaTaskerPostStop"
  /\ Len(returned) = 2

\* what pass 1 does with the Tasker.Task.Starting event events[i], given whether its
\* task_id lets it create a task
StartingStep(idAllows) ==
  LET details == events[i].details
      known == \E x \in 1..Len(tasks) :
                 tasks[x].uuid = details.uuid /\ tasks[x].task_id = details.task_id
  IN IF idAllows /\ ~known
       THEN /\ Len(tasks') = Len(tasks) + 1
            /\ SubSeq(tasks', 1, Len(tasks)) = tasks
            /\ tasks'[Len(tasks')].task_id = details.task_id
            /\ tasks'[Len(tasks')].uuid = details.uuid
            /\ tasks'[Len(tasks')].status = "running"
            /\ tasks'[Len(tasks')].startEventIndex = i
       ELSE tasks' = tasks

C20_Step ==
  (AtPass1Event /\ events[i].message = "Tasker.Task.Starting")
    => StartingStep(events[i].details.task_id # 0)

\* C20 (amended): a Tasker.Task.Starting event whose task_id is present and not 0, with
\* any uuid, creates a task exactly when no task with the same uuid and task_id was
\* created earlier in the pass; the task is running and its start index is the event's
\* index.  A Starting event without task_id, or with task_id 0, creates nothing.
C20_CreationRule == [][C20_Step]_vars

C20_StepAsStated ==
  (AtPass1Event /\ events[i].message = "Tasker.Task.Starting") => StartingStep(TRUE)

\* C20 as stated: the creation rule holds for any task_id value, 0 included.
C20_AsStated == [][C20_StepAsStated]_vars

\* C20 witness: pass 1 has passed the start of 5/"a", a second start of 5/"a" and the
\* start of task 5 without uuid, and holds two tasks
C20_Witness ==
  /\ pc = "pass1"
  /\ i = 4
  /\ events[1] = TaskStarting(5, "a", "Main", T0)
  /\ events[2] = TaskStarting(5, "a", "Main", T0)
  /\ events[3] = TaskStarting(5, "", "MaaTaskerPostStop", T0)
  /\ Len(tasks) = 2

\* the open tasks the close event events[i] can close: those with its uuid, if that is a
\* uuid in the sense of usesUuid, and those with its task_id otherwise
OpenCandidates(usesUuid) ==
  {x \in 1..Len(tasks) :
     /\ tasks[x].end_time = ""
     /\ IF usesUuid THEN tasks[x].uuid = events[i].details.uuid
        ELSE tasks[x].task_id = events[i].details.task_id}

\* what pass 1 does with the close event events[i]: the earliest-created candidate, and no
\* other task, takes its status, end_time and end index from the event
CloseStep(usesUuid) ==
  LET S == OpenCandidates(usesUuid)
  IN IF S = {} THEN tasks' = tasks
     ELSE LET m == CHOOSE x \in S : \A y \in S : x <= y
          IN /\ Len(tasks') = Len(tasks)
             /\ \A x \in 1..Len(tasks) : x # m => tasks'[x] = tasks[x]
             /\ tasks'[m].status =
                  (IF events[i].message = "Tasker.Task.Succeeded" THEN "succeeded" ELSE "failed")
             /\ tasks'[m].end_time = events[i].timestamp
             /\ tasks'[m].endEventIndex = i
             /\ tasks'[m].task_id = tasks[m].task_id
             /\ tasks'[m].uuid = tasks[m].uuid
             /\ tasks'[m].start_time = tasks[m].start_time
             /\ tasks'[m].startEventIndex = tasks[m].startEventIndex

C21_Step ==
  (AtPass1Event /\ events[i].message \in TaskEndMsgs)
    => CloseStep(NonBlank(events[i].details.uuid))

\* C21 (amended): a Tasker.Task.Succeeded/Failed event whose uuid is not blank (empty or
\* whitespace only) closes the earliest-created task that has that uuid and no end_time;
\* with a blank or absent uuid it closes the earliest-created task that has the event's
\* task_id and no end_time; exactly one task is closed per matching event, and its status,
\* end_time and end-event index are taken from that event.
C21_CloseRule == [][C21_Step]_vars

C21_StepAsStated ==
  (AtPass1Event /\ events[i].message \in TaskEndMsgs)
    => CloseStep(events[i].details.uuid # "")

\* C21 as stated: the close event picks its task by uuid whenever its uuid is non-empty, a
\* whitespace-only uuid included.
C21_AsStated == [][C21_StepAsStated]_vars

\* C21 witness: with the post-stop task 5 and task 5/"a" both open, pass 1 has passed a
\* close event of task_id 5 with a blank uuid: the earlier-created of the two is closed by
\* it, the other is still open
C21_Witness ==
  /\ pc = "pass1"
  /\ i = 4
  /\ events[1] = TaskStarting(5, "", "MaaTaskerPostStop", T0)
  /\ events[2] = TaskStarting(5, "a", "Main", T0)
  /\ events[3] = TaskSucceeded(5, " ", T1)
  /\ Len(tasks) = 2
  /\ tasks[1].status = "succeeded" /\ tasks[1].end_time = T1 /\ tasks[1].endEventIndex = 3
  /\ tasks[2].status = "running" /\ tasks[2].end_time = ""

C22_Step ==
  (AtPass1Event /\ events[i].message \in TaskEndMsgs) =>
    \A x \in 1..Len(tasks) :
      (tasks[x].end_time = "" /\ tasks'[x].end_time # "") =>
        /\ events[i].details.task_id = tasks[x].task_id
        /\ events[i].details.uuid # "" => events[i].details.uuid = tasks[x].uuid

\* C22: a Tasker.Task.Succeeded/Failed event never closes a task of another task_id:
\* whenever a task gets an end_time, the closing event's task_id is the task's task_id, and
\* its uuid, when non-empty, is the task's uuid.
C22_ClosedByOwnEvent == [][C22_Step]_vars

\* every task is running without end_time, or succeeded or failed with the end_time and
\* the index of a close event after its start event
C23_State ==
  \A x \in 1..Len(tasks) :
    /\ tasks[x].status \in {"running", "succeeded", "failed"}
    /\ tasks[x].status = "running" <=> tasks[x].end_time = ""
    /\ tasks[x].end_time # "" =>
         /\ tasks[x].endEventIndex > tasks[x].startEventIndex
         /\ hEvents[tasks[x].endEventIndex].message \in TaskEndMsgs
         /\ tasks[x].status =
              (IF hEvents[tasks[x].endEventIndex].message = "Tasker.Task.Succeeded"
                 THEN "succeeded" ELSE "failed")

\* a task is created running; a task that has an end_time keeps its status, end_time, end
\* index and duration in every step of getTasks()
C23_Step ==
  /\ \A x \in 1..Len(tasks') : x > Len(tasks) => tasks'[x].status = "running"
  /\ \A x \in 1..Len(tasks) :
       tasks[x].end_time # "" =>
         /\ Len(tasks') >= x
         /\ tasks'[x].status = tasks[x].status
         /\ tasks'[x].end_time = tasks[x].end_time
         /\ tasks'[x].endEventIndex = tasks[x].endEventIndex
         /\ tasks'[x].duration = tasks[x].duration

\* C23: task status is monotone: a task starts as running and moves at most once to
\* succeeded or failed; once it has an end_time no later event changes its status,
\* end_time, end-event index or duration; status is running exactly when end_time is
\* absent, and a closed task's end-event index is greater than its start-event index.
C23_StatusMonotone == [](C23_State) /\ [][C23_Step]_vars

\* C23 witness: task 5 got a node, was closed by the third event and met a second close
\* event of task_id 5; getTasks() returns it with the first close event's data
C23_Witness ==
  /\ pc = "done"
  /\ Len(hEvents) = 4
  /\ hEvents[1] = TaskStarting(5, "", "", T0)
  /\ hEvents[2] = PipelineNode("Succeeded", 5, 10, "X", T1)
  /\ hEvents[3] = TaskSucceeded(5, "", T1)
  /\ hEvents[4] = TaskSucceeded(5, "a", T1)
  /\ Len(returned) = 1
  /\ returned[1].status = "succeeded" /\ returned[1].endEventIndex = 3
  /\ Len(returned[1].nodes) = 1

\* a task with the uuid and task_id of details is open when pass 1 reaches event c: it was
\* started before c and not closed before c
OpenAt(c, details) ==
  \E x \in 1..Len(tasks) :
    /\ tasks[x].uuid = details.uuid
    /\ tasks[x].task_id = details.task_id
    /\ tasks[x].startEventIndex < c
    /\ tasks[x].endEventIndex = 0 \/ tasks[x].endEventIndex > c

\* C24: a Tasker.Task.Starting event is dropped only while a task with the same
\* (uuid, task_id) is still open: a start of a (uuid, task_id) none of whose tasks is open,
\* in particular of an empty uuid with a reused task_id whose earlier task was closed,
\* yields a task of its own in getTasks()'s output, and a close event after it closes
\* that task.
C24_RestartAfterClose ==
  pc = "done" =>
    \A c \in 1..Len(hEvents) :
      (/\ hEvents[c].message = "Tasker.Task.Starting"
       /\ hEvents[c].details.task_id # 0
       /\ ~OpenAt(c, hEvents[c].details))
        => /\ \E r \in 1..Len(returned) : returned[r].startEventIndex = c
           /\ \A e \in (c + 1)..Len(hEvents) :
                (/\ hEvents[e].message \in TaskEndMsgs
                 /\ hEvents[e].details.uuid = hEvents[c].details.uuid
                 /\ hEvents[e].details.task_id = hEvents[c].details.task_id
                 /\ \A f \in (c + 1)..(e - 1) : hEvents[f].message \notin TaskEndMsgs)
                  => \E r \in 1..Len(returned) :
                       returned[r].startEventIndex = c /\ returned[r].endEventIndex = e

-----------------------------------------------------------------------------
(* Properties of the task slices *)

\* the index of the last event of the task's lifetime: its close event, or the last event
\* of the stream if it was never closed
LastIndex(task) == IF task.end_time = "" THEN Len(hEvents) ELSE task.endEventIndex

\* C25: every Node of a task is built from a completion event whose index lies between the
\* task's start-event index and end-event index inclusive, and for a task that was never
\* closed between its start event and the last event of the stream; every node id completed
\* for the task within these indices has its Node.
C25_NodesWithinSlice ==
  Reconstructing =>
    \A t \in 1..Len(tasks) :
      /\ \A j \in 1..Len(CurNodes(t)) :
           /\ Len(hNodeEvent[t]) >= j
           /\ hNodeEvent[t][j] >= tasks[t].startEventIndex
           /\ hNodeEvent[t][j] <= LastIndex(tasks[t])
           /\ BuiltFrom(CurNodes(t)[j], hEvents[hNodeEvent[t][j]], tasks[t])
      /\ (pc = "done" \/ t < ti) =>
           \A e \in tasks[t].startEventIndex .. LastIndex(tasks[t]) :
             (/\ hEvents[e].message \in PipelineNodeMsgs
              /\ hEvents[e].details.task_id = tasks[t].task_id
              /\ hEvents[e].details.node_id # 0)
               => \E j \in 1..Len(tasks[t].nodes) :
                    tasks[t].nodes[j].node_id = hEvents[e].details.node_id

\* C25 witness: task 1 was closed before node 11 of task_id 1 completed and has no node;
\* task 2, started first and never closed, has node 10 from the last event of the stream
C25_Witness ==
  /\ pc = "done"
  /\ hEvents = <<TaskStarting(2, "b", "", T0),
                 TaskStarting(1, "a", "", T0),
                 TaskSucceeded(1, "a", TH),
                 PipelineNode("Succeeded", 1, 11, "Z", T1),
                 PipelineNode("Succeeded", 2, 10, "W", T1)>>
  /\ Len(returned) = 2
  /\ returned[1].end_time = "" /\ Len(returned[1].nodes) = 1 /\ hNodeEvent[1] = <<5>>
  /\ returned[2].endEventIndex = 3 /\ returned[2].nodes = <<>>

\* C26: each Node.PipelineNode.Succeeded/Failed event of the stream yields a Node in at
\* most one task of the getTasks() output, also when task lifetimes overlap or an earlier
\* task with the same task_id was never closed.
C26_NodeInOneTask ==
  pc = "done" =>
    \A t, u \in KeptTasks :
      t # u => \A j \in 1..Len(hNodeEvent[t]) : \A k \in 1..Len(hNodeEvent[u]) :
                 hNodeEvent[t][j] # hNodeEvent[u][k]

-----------------------------------------------------------------------------
(* Properties of the per-node window *)

\* the numbers of S in ascending order
RECURSIVE Ascending(_)
Ascending(S) ==
  IF S = {} THEN <<>>
  ELSE LET least == CHOOSE x \in S : \A y \in S : x <= y
       IN <<least>> \o Ascending(S \ {least})

\* event e is a Node.PipelineNode.Succeeded/Failed event of the task's task_id
TaskCompletion(task, e) ==
  /\ hEvents[e].message \in PipelineNodeMsgs
  /\ hEvents[e].details.task_id = task.task_id

\* the events of the task's slice after the last task-scoped completion event before e, or
\* after the task's start event if there is none, and before e
Window(task, e) ==
  LET P == {f \in task.startEventIndex..(e - 1) : TaskCompletion(task, f)}
      w == IF P = {} THEN task.startEventIndex ELSE CHOOSE f \in P : \A g \in P : g <= f
  IN (w + 1)..(e - 1)

\* the task's own Node.Recognition events of the window, in order
OwnRecognitions(task, e) ==
  Ascending({f \in Window(task, e) : /\ hEvents[f].message \in RecognitionMsgs
                                     /\ hEvents[f].details.task_id = task.task_id})

\* the task's Node.NextList.Starting events of the window
OwnNextLists(task, e) ==
  {f \in Window(task, e) : /\ hEvents[f].message = "Node.NextList.Starting"
                           /\ hEvents[f].details.task_id = task.task_id}

\* the node built from event e carries the window's own recognitions, in order, and the
\* window's last next list
WindowOf(node, task, e) ==
  LET recos == OwnRecognitions(task, e)
      lists == OwnNextLists(task, e)
  IN /\ Len(node.recognition_attempts) = Len(recos)
     /\ \A k \in 1..Len(recos) :
          /\ node.recognition_attempts[k].reco_id = hEvents[recos[k]].details.reco_id
          /\ node.recognition_attempts[k].name = hEvents[recos[k]].details.name
          /\ node.recognition_attempts[k].timestamp = hEvents[recos[k]].timestamp
          /\ node.recognition_attempts[k].status =
               (IF hEvents[recos[k]].message = "Node.Recognition.Succeeded"
                  THEN "success" ELSE "failed")
     /\ IF lists = {} THEN node.next_list = <<>>
        ELSE LET last == CHOOSE f \in lists : \A g \in lists : g <= f
             IN node.next_list = hEvents[last].details.list

C27_State ==
  Reconstructing =>
    \A t \in 1..Len(tasks) : \A j \in 1..Len(CurNodes(t)) :
      /\ Len(hNodeEvent[t]) >= j
      /\ WindowOf(CurNodes(t)[j], tasks[t], hNodeEvent[t][j])

\* getTaskNodes passes a completion event of its task
C27_Step ==
  (/\ pc = "pass2" /\ ti <= Len(tasks) /\ ti' = ti /\ evIdx' = evIdx + 1
   /\ TaskCompletion(tasks[ti], evIdx))
    => /\ currentNextList' = <<>>
       /\ recognitionAttempts' = <<>>
       /\ nestedActionNodes' = <<>>
       /\ nestedNodes' = <<>>

\* C27: every task-scoped Node.PipelineNode.Succeeded/Failed event, whether it creates a
\* Node, is a duplicate or has no node_id, resets currentNextList, recognitionAttempts,
\* nestedActionNodes and nestedNodes; hence a created Node's recognition_attempts are the
\* task's own Node.Recognition events, in order, that arrived after the previous
\* task-scoped completion event of the slice, and its next_list is that of the last
\* Node.NextList.Starting of the task in the same window (empty if none).
C27_WindowReset == [](C27_State) /\ [][C27_Step]_vars

\* C27 witness: after node 10 a next list and a recognition arrive, then node 10 completes
\* again (a duplicate), then node 11: node 11 has neither the next list nor the attempt
C27_Witness ==
  /\ pc = "done"
  /\ hEvents = <<TaskStarting(1, "a", "", T0),
                 PipelineNode("Succeeded", 1, 10, "X", TH),
                 NextListStarting(1, <<NextItem("N1", FALSE, FALSE)>>, T0),
                 Recognition("Failed", 1, 101, "B", T1),
                 PipelineNode("Succeeded", 1, 10, "X", TH),
                 PipelineNode("Failed", 1, 11, "Y", TH)>>
  /\ Len(returned) = 1
  /\ Len(returned[1].nodes) = 2
  /\ returned[1].nodes[2].node_id = 11
  /\ returned[1].nodes[2].recognition_attempts = <<>>
  /\ returned[1].nodes[2].next_list = <<>>

-----------------------------------------------------------------------------
(* Properties of the nested summaries *)

\* getTaskNodes passes the event events[evIdx] of the current task's slice
AtNodeEvent == pc = "pass2" /\ ti <= Len(tasks) /\ ti' = ti /\ evIdx' = evIdx + 1

C28_Step ==
  (AtNodeEvent /\ TaskCompletion(tasks[ti], evIdx))
    => recognitionsByTaskId' = EmptyMap /\ actionsByTaskId' = EmptyMap

\* C28: after a task-scoped Node.PipelineNode completion event the per-child maps
\* recognitionsByTaskId and actionsByTaskId are empty, so that child records collected
\* before a node completed are not attached to a summary produced while a later node is in
\* flight.
C28_ChildMapsReset == [][C28_Step]_vars

\* the number of nested summaries the attempts carry
RECURSIVE NestedCount(_)
NestedCount(attempts) ==
  IF attempts = <<>> THEN 0
  ELSE Len(Head(attempts).nested_nodes) + NestedCount(Tail(attempts))

\* the number of nested summaries the nodes carry, in their attempts and in
\* nested_recognition_in_action
RECURSIVE PlacedCount(_)
PlacedCount(ns) ==
  IF ns = <<>> THEN 0
  ELSE NestedCount(Head(ns).recognition_attempts) + Len(Head(ns).nested_recognition_in_action)
       + PlacedCount(Tail(ns))

\* the Node.RecognitionNode events of child tasks among the events first..last
ChildSummaryEvents(task, first, last) ==
  {e \in first..last : /\ hEvents[e].message \in RecognitionNodeMsgs
                       /\ hEvents[e].details.task_id # task.task_id}

\* while a task's slice is read, the summaries placed in nodes and attempts and those
\* still pending are no more than the summary events read; a task's nodes carry no more
\* summaries than its slice has summary events
C29_State ==
  Reconstructing =>
    \A t \in 1..Len(tasks) :
      IF pc = "pass2" /\ t = ti
        THEN PlacedCount(nodes) + NestedCount(recognitionAttempts) + Len(nestedNodes)
               <= Cardinality(ChildSummaryEvents(tasks[t], tasks[t].startEventIndex, evIdx - 1))
        ELSE PlacedCount(tasks[t].nodes)
               <= Cardinality(ChildSummaryEvents(tasks[t], tasks[t].startEventIndex,
                                                 LastIndex(tasks[t])))

\* a summary event adds one pending summary; the next own-task recognition takes all
\* pending summaries as its nested_nodes and none stays pending; a completion event puts
\* the pending ones into the node it creates, if it creates one, and none stays pending;
\* attempts and nodes already built are not changed
C29_Step ==
  AtNodeEvent =>
    LET event == events[evIdx]
        own == event.details.task_id = tasks[ti].task_id
    IN CASE event.message \in RecognitionNodeMsgs /\ ~own ->
              /\ Len(nestedNodes') = Len(nestedNodes) + 1
              /\ SubSeq(nestedNodes', 1, Len(nestedNodes)) = nestedNodes
              /\ nestedNodes'[Len(nestedNodes')].name = event.details.name
              /\ recognitionAttempts' = recognitionAttempts
              /\ nodes' = nodes
         [] event.message \in RecognitionMsgs /\ own ->
              /\ Len(recognitionAttempts') = Len(recognitionAttempts) + 1
              /\ SubSeq(recognitionAttempts', 1, Len(recognitionAttempts)) = recognitionAttempts
              /\ recognitionAttempts'[Len(recognitionAttempts')].nested_nodes = nestedNodes
              /\ nestedNodes' = <<>>
              /\ nodes' = nodes
         [] event.message \in PipelineNodeMsgs /\ own ->
              /\ \/ nodes' = nodes
                 \/ /\ Len(nodes') = Len(nodes) + 1
                    /\ SubSeq(nodes', 1, Len(nodes)) = nodes
                    /\ nodes'[Len(nodes')].recognition_attempts = recognitionAttempts
                    /\ nodes'[Len(nodes')].nested_recognition_in_action = nestedNodes
              /\ nestedNodes' = <<>>
              /\ recognitionAttempts' = <<>>
         [] OTHER ->
              /\ nestedNodes' = nestedNodes
              /\ recognitionAttempts' = recognitionAttempts
              /\ nodes' = nodes

\* C29: within one task, each nested recognition summary (built from a
\* Node.RecognitionNode event of a child task_id) ends up in exactly one place or is
\* discarded: in the nested_nodes of the next own-task recognition attempt or, if no
\* own-task recognition follows before the node completes, in that Node's
\* nested_recognition_in_action; never in two attempts, nor in an attempt and in
\* nested_recognition_in_action.
C29_SummaryInOnePlace == [](C29_State) /\ [][C29_Step]_vars

\* C29 witness: a summary, the own-task recognition that takes it, a second summary and
\* the completion of node 10: the node has one summary in its attempt and one in
\* nested_recognition_in_action
C29_Witness ==
  /\ pc = "done"
  /\ hEvents = <<TaskStarting(1, "a", "", T0),
                 RecognitionNode("Succeeded", 2, 20, "Sub", T1),
                 Recognition("Succeeded", 1, 100, "Own", T1),
                 RecognitionNode("Succeeded", 2, 20, "Sub", T1),
                 PipelineNode("Succeeded", 1, 10, "X", TH)>>
  /\ Len(returned) = 1 /\ Len(returned[1].nodes) = 1
  /\ Len(returned[1].nodes[1].recognition_attempts) = 1
  /\ Len(returned[1].nodes[1].recognition_attempts[1].nested_nodes) = 1
  /\ Len(returned[1].nodes[1].nested_recognition_in_action) = 1

\* the events with a message of msgs and task_id c of the current task's slice that
\* arrived before events[evIdx] and after the last event before it with a message of
\* summaryMsgs and task_id c, in order
RecordsSince(c, msgs, summaryMsgs) ==
  LET P == {f \in tasks[ti].startEventIndex..(evIdx - 1) :
              events[f].message \in summaryMsgs /\ events[f].details.task_id = c}
      w == IF P = {} THEN tasks[ti].startEventIndex ELSE CHOOSE f \in P : \A g \in P : g <= f
  IN Ascending({f \in (w + 1)..(evIdx - 1) :
                  events[f].message \in msgs /\ events[f].details.task_id = c})

\* a summary event of child c takes the records of c that arrived since the summary of c
\* before it, in arrival order, and c's entry is removed
C30_Step ==
  AtNodeEvent =>
    LET event == events[evIdx]
        c == event.details.task_id
    IN /\ (event.message \in RecognitionNodeMsgs /\ c # tasks[ti].task_id) =>
            LET recs == RecordsSince(c, RecognitionMsgs, RecognitionNodeMsgs)
                taken == nestedNodes'[Len(nestedNodes')].nested_nodes
            IN /\ Len(nestedNodes') = Len(nestedNodes) + 1
               /\ Len(taken) = Len(recs)
               /\ \A k \in 1..Len(recs) :
                    /\ taken[k].reco_id = events[recs[k]].details.reco_id
                    /\ taken[k].name = events[recs[k]].details.name
                    /\ taken[k].timestamp = events[recs[k]].timestamp
               /\ c \notin DOMAIN recognitionsByTaskId'
       /\ (event.message \in ActionNodeMsgs /\ c # tasks[ti].task_id) =>
            LET recs == RecordsSince(c, ActionMsgs, ActionNodeMsgs)
                taken == nestedActionNodes'[Len(nestedActionNodes')].nested_actions
            IN /\ Len(nestedActionNodes') = Len(nestedActionNodes) + 1
               /\ Len(taken) = Len(recs)
               /\ \A k \in 1..Len(recs) :
                    /\ taken[k].action_id = events[recs[k]].details.action_id
                    /\ taken[k].name = events[recs[k]].details.name
                    /\ taken[k].timestamp = events[recs[k]].timestamp
               /\ c \notin DOMAIN actionsByTaskId'

\* C30: a child task's recognition (resp. action) record is attached to at most one nested
\* summary: a Node.RecognitionNode (resp. Node.ActionNode) event of child task_id c takes
\* all records accumulated under c so far, in arrival order, and c's entry is removed, so a
\* second summary for c holds only the records that arrived after the first.
C30_RecordsInOneSummary == [][C30_Step]_vars

\* C30 witness: two summaries of child 2 are pending, the first with the recognition that
\* arrived before it, the second with the one that arrived between the two
C30_Witness ==
  /\ pc = "pass2" /\ ti = 1 /\ evIdx = 6
  /\ events[2] = Recognition("Succeeded", 2, 201, "ChildA", T0)
  /\ events[3] = RecognitionNode("Succeeded", 2, 20, "Sub", T1)
  /\ events[4] = Recognition("Failed", 2, 202, "ChildB", T1)
  /\ events[5] = RecognitionNode("Succeeded", 2, 20, "Sub", T1)
  /\ Len(nestedNodes) = 2
  /\ Len(nestedNodes[1].nested_nodes) = 1 /\ nestedNodes[1].nested_nodes[1].reco_id = 201
  /\ Len(nestedNodes[2].nested_nodes) = 1 /\ nestedNodes[2].nested_nodes[1].reco_id = 202
  /\ recognitionsByTaskId = EmptyMap

-----------------------------------------------------------------------------
(* Properties of what getTasks() returns *)

\* b - a in milliseconds, for timestamps of the logs
Elapsed(a, b) == Minus(DateGetTime(b), DateGetTime(a))

\* C31: after getTasks(), a task still running has duration = (timestamp of its last node)
\* - start_time when it has a node and an undefined duration when it has none; a closed
\* task's duration is end_time - start_time, whatever its nodes.
C31_Durations ==
  pc = "done" =>
    \A r \in 1..Len(returned) :
      LET task == returned[r]
      IN IF task.status = "running"
           THEN IF Len(task.nodes) > 0
                  THEN task.duration =
                         Elapsed(task.start_time, task.nodes[Len(task.nodes)].timestamp)
                  ELSE task.duration = Undefined
           ELSE task.duration = Elapsed(task.start_time, task.end_time)

\* C31 witness: task 1 is closed an hour after its start with a node of the start's time,
\* task 2 is running with one node, a millisecond after its start
C31_Witness ==
  /\ pc = "done"
  /\ Len(returned) = 2
  /\ returned[1].status = "succeeded" /\ Len(returned[1].nodes) = 1
  /\ returned[1].duration = Num(3600000)
  /\ returned[1].nodes[1].timestamp = T0
  /\ returned[2].status = "running" /\ Len(returned[2].nodes) = 1
  /\ returned[2].duration = Num(1)

\* C32: getTasks() consumes the buffer: once it has returned, getEvents() is empty, and a
\* further getTasks() call with no parseFile call in between returns an empty list, while
\* the forest the caller kept from the call before still holds its tasks.
C32_State ==
  /\ pc = "done" => getEvents = <<>>
  /\ pc = "done" /\ calls >= 2 => returned = <<>>
C32_Step ==
  calls >= 2 /\ calls' = calls => forest' = forest
C32_BufferConsumed == [](C32_State) /\ [][C32_Step]_vars

\* C32 witness: the first call returned two tasks with a node each, the second has returned
C32_Witness ==
  /\ pc = "done"
  /\ calls = 2
  /\ returned = <<>>
  /\ Len(forest) = 2
  /\ Len(forest[1].nodes) = 1 /\ Len(forest[2].nodes) = 1

-----------------------------------------------------------------------------
(* Properties of the statistics rows *)

\* the nodes of a task that have a duration, each with its duration: the next node's
\* timestamp minus its own, the task's end_time minus its own for the last node of an
\* ended task; the last node of a task that has not ended has none
TimedNodes(task) ==
  LET timed(x) ==
        [node |-> task.nodes[x],
         duration |-> IF x < Len(task.nodes)
                        THEN Elapsed(task.nodes[x].timestamp, task.nodes[x + 1].timestamp)
                        ELSE Elapsed(task.nodes[x].timestamp, task.end_time)]
      all == [x \in 1..Len(task.nodes) |-> timed(x)]
  IN IF task.end_time = "" /\ Len(task.nodes) > 0
       THEN SubSeq(all, 1, Len(all) - 1)
       ELSE all

RECURSIVE AllTimedNodes(_)
AllTimedNodes(tsks) ==
  IF tsks = <<>> THEN <<>>
  ELSE AllTimedNodes(SubSeq(tsks, 1, Len(tsks) - 1)) \o TimedNodes(tsks[Len(tsks)])

\* the timed nodes of that name which the filter of analyze lets through: it rejects a
\* negative duration and one above an hour
KeptNodes(tsks, name) ==
  SelectSeq(AllTimedNodes(tsks),
            LAMBDA t : /\ t.node.name = name
                       /\ ~(t.duration.kind = "num" /\ t.duration.v < 0)
                       /\ ~(t.duration.kind = "num" /\ t.duration.v > HourMs))

\* C33: in analyze a node's duration is the next node's timestamp minus its own, or for the
\* last node of an ended task end_time minus its timestamp; the last node of a task without
\* end_time is skipped, and a skipped or filtered node contributes neither a duration nor a
\* success or failure: every row holds exactly the durations of the kept nodes of its
\* name, in order, and count = successCount + failCount = the number of these durations.
C33_NodeTiming ==
  op.name = "analyze" =>
    \A x \in 1..Len(stats) :
      LET row == stats[x]
          kept == KeptNodes(forest, row.name)
      IN /\ row.durations = [y \in 1..Len(kept) |-> kept[y].duration]
         /\ row.successCount = Len(SelectSeq(kept, LAMBDA t : t.node.status = "success"))
         /\ row.failCount = Len(SelectSeq(kept, LAMBDA t : t.node.status # "success"))
         /\ row.count = row.successCount + row.failCount
         /\ row.count = Len(row.durations)

\* C33 witness: a task that has not ended with two nodes "A": the first is timed by the
\* second (a millisecond), the second, a failure, is skipped
C33_Witness ==
  /\ op.name = "analyze"
  /\ Len(forest) = 1
  /\ forest[1].end_time = ""
  /\ Len(forest[1].nodes) = 2
  /\ forest[1].nodes[1].name = "A" /\ forest[1].nodes[1].status = "success"
  /\ forest[1].nodes[2].name = "A" /\ forest[1].nodes[2].status = "failed"
  /\ Len(stats) = 1
  /\ stats[1].durations = <<Num(1)>>
  /\ stats[1].successCount = 1 /\ stats[1].failCount = 0 /\ stats[1].count = 1

\* the nodes of the forest, task after task
RECURSIVE AllNodes(_)
AllNodes(tsks) ==
  IF tsks = <<>> THEN <<>>
  ELSE AllNodes(SubSeq(tsks, 1, Len(tsks) - 1)) \o tsks[Len(tsks)].nodes

\* the nodes of that name with a recognition attempt
Attempted(tsks, name) ==
  SelectSeq(AllNodes(tsks), LAMBDA n : n.name = name /\ Len(n.recognition_attempts) >= 1)

\* last attempt's timestamp - first attempt's timestamp
RecognitionPhase(node) ==
  Elapsed(node.recognition_attempts[1].timestamp,
          node.recognition_attempts[Len(node.recognition_attempts)].timestamp)
\* the node's timestamp - last attempt's timestamp
ActionPhase(node) ==
  Elapsed(node.recognition_attempts[Len(node.recognition_attempts)].timestamp, node.timestamp)

\* the recognition-phase durations recorded for that name
RecognitionPhases(tsks, name) ==
  LET timed == SelectSeq(Attempted(tsks, name),
                         LAMBDA n : /\ Len(n.recognition_attempts) >= 2
                                    /\ InHalfOpenHour(RecognitionPhase(n)))
  IN [x \in 1..Len(timed) |-> RecognitionPhase(timed[x]).v]
\* the action-phase durations recorded for that name
ActionPhases(tsks, name) ==
  LET timed == SelectSeq(Attempted(tsks, name), LAMBDA n : InHalfOpenHour(ActionPhase(n)))
  IN [x \in 1..Len(timed) |-> ActionPhase(timed[x]).v]

\* min <= avg <= max, for an exact quotient avg
Between(min, avg, max) ==
  /\ IsNum(min) /\ IsNum(max) /\ avg.kind = "num"
  /\ min.v * avg.den <= avg.num
  /\ avg.num <= max.v * avg.den

\* C34: analyze and analyzeRecognitionAction return one row per distinct node name that
\* has something to count and no other row, pooling the nodes of that name of all tasks;
\* every row has min <= avg <= max and a total that is the sum of the recorded durations.
C34_RowPerName ==
  /\ op.name \in {"analyze", "analyzeRecognitionAction"} =>
       \A x, y \in 1..Len(stats) : stats[x].name = stats[y].name => x = y
  /\ op.name = "analyze" =>
       /\ \A name \in {AllNodes(forest)[x].name : x \in 1..Len(AllNodes(forest))} :
            KeptNodes(forest, name) # <<>> => \E x \in 1..Len(stats) : stats[x].name = name
       /\ \A x \in 1..Len(stats) :
            LET row == stats[x]
            IN /\ row.count = Len(KeptNodes(forest, row.name))
               /\ row.count > 0
               /\ Between(row.minDuration, row.avgDuration, row.maxDuration)
               /\ row.totalDuration = Sum(row.durations)
  /\ op.name = "analyzeRecognitionAction" =>
       /\ \A name \in {AllNodes(forest)[x].name : x \in 1..Len(AllNodes(forest))} :
            Attempted(forest, name) # <<>> => \E x \in 1..Len(stats) : stats[x].name = name
       /\ \A x \in 1..Len(stats) :
            LET row == stats[x]
            IN /\ row.count = Len(Attempted(forest, row.name))
               /\ row.count > 0
               /\ Between(row.minRecognitionDuration, row.avgRecognitionDuration,
                          row.maxRecognitionDuration)
               /\ Between(row.minActionDuration, row.avgActionDuration, row.maxActionDuration)
               /\ row.totalRecognitionDuration =
                    Num(SumInts(RecognitionPhases(forest, row.name)))
               /\ row.totalActionDuration = Num(SumInts(ActionPhases(forest, row.name)))

\* C35: analyzeRecognitionAction counts only the nodes with a recognition attempt; it
\* records a recognition-phase duration (last attempt - first attempt) for a node with two
\* attempts or more whose duration is in [0, 3600000), and an action-phase duration (node -
\* last attempt) when that is in [0, 3600000); so recognitionCount <= count, actionCount <=
\* count and totalRecognitionAttempts >= count in every row.
C35_PhaseTiming ==
  op.name = "analyzeRecognitionAction" =>
    \A x \in 1..Len(stats) :
      LET row == stats[x]
          counted == Attempted(forest, row.name)
      IN /\ row.count = Len(counted)
         /\ row.recognitionCount = Len(RecognitionPhases(forest, row.name))
         /\ row.actionCount = Len(ActionPhases(forest, row.name))
         /\ row.totalRecognitionAttempts =
              SumInts([y \in 1..Len(counted) |-> Len(counted[y].recognition_attempts)])
         /\ row.recognitionCount <= row.count
         /\ row.actionCount <= row.count
         /\ row.totalRecognitionAttempts >= row.count

\* C35 witness: two nodes "A"; one has two attempts an hour apart and completes a
\* millisecond after the last, the other has no attempt
C35_Witness ==
  /\ op.name = "analyzeRecognitionAction"
  /\ Len(forest) = 1
  /\ Len(forest[1].nodes) = 2
  /\ forest[1].nodes[1].name = "A" /\ forest[1].nodes[2].name = "A"
  /\ Len(forest[1].nodes[1].recognition_attempts) = 2
  /\ RecognitionPhase(forest[1].nodes[1]) = Num(HourMs)
  /\ forest[1].nodes[2].recognition_attempts = <<>>
  /\ Len(stats) = 1
  /\ stats[1].count = 1
  /\ stats[1].recognitionCount = 0
  /\ stats[1].actionCount = 1
  /\ stats[1].totalActionDuration = Num(1)
  /\ stats[1].totalRecognitionAttempts = 2

-----------------------------------------------------------------------------
(* Properties of the statistics view *)

\* the handler calls that hold the lock: arrived, not returned
Uploading == {s \in Slots : view.at[s] # "idle"}

\* C36: at most one upload or parse is in progress in the statistics view, and a
\* handleFileUpload or handleTauriFileSelect call that arrives while isUploading is true
\* returns without reading a file, starting a parse or changing localTasks.
C36_State ==
  /\ Cardinality(Uploading) <= 1
  /\ Uploading # {} => view.isUploading
C36_Step ==
  view.isUploading /\ view'.arrivals # view.arrivals =>
    view' = [view EXCEPT !.arrivals = @ + 1]
C36_OneUpload == [](C36_State) /\ [][C36_Step]_vars

\* C36 witness: a call arrived and returned at once while another call's parse was running
C36_Witness ==
  /\ view.arrivals = 2
  /\ view.isUploading
  /\ \E s \in Slots : view.at[s] = "parseFile"
  /\ Cardinality(Uploading) = 1

\* C37: a call that took the lock releases it in the end: isUploading is false again, with
\* showParsingModal false and parseProgress 0, whether the read and the parse succeed, one
\* of them throws or the dialog is cancelled.
C37_LockReleased ==
  /\ view.isUploading ~> (~view.isUploading /\ ~view.showParsingModal /\ view.parseProgress = 0)
  /\ [](~view.isUploading => ~view.showParsingModal /\ view.parseProgress = 0)

\* C37 witness: the one call that took the lock has read, parsed, waited for the timer and
\* returned: the lock is free, the modal closed and the progress back at 0
C37_Witness ==
  /\ view.arrivals = 1
  /\ view.uploadKey = 1
  /\ Len(view.localTasks) = 2
  /\ ~view.isUploading
  /\ ~view.showParsingModal
  /\ view.parseProgress = 0

-----------------------------------------------------------------------------
(* Properties of App.vue *)

\* the parser after parseFile(c) alone, from cleared collections
ParsedAlone(c) == LinesLoop(ParseState(<<>>, {}, {}, EmptyMap, EmptyMap), c, 1, Len(c))

\* the tasks shown, the ids offered and the parser's owner maps all come from the content c
ShowsOnly(c) ==
  /\ hEvents = ParsedAlone(c).events
  /\ app.tasks = returned
  /\ taskProcessMap = ParsedAlone(c).taskProcessMap
  /\ taskThreadMap = ParsedAlone(c).taskThreadMap
  /\ app.availableProcessIds = SortedIds(MapValues(ParsedAlone(c).taskProcessMap))
  /\ app.availableThreadIds = SortedIds(MapValues(ParsedAlone(c).taskThreadMap))

BothFinished == app.started = MaxOverlap /\ app.finished = MaxOverlap

\* C38: in App.vue, where the uploads share one LogParser, two uploads whose parseFile
\* calls may overlap end consistently: once both have finished, the tasks shown, the
\* available process and thread ids and the parser's owner maps all come from one and the
\* same content, with no owner or id of the other upload.
C38_OneContent ==
  BothFinished => \E s \in Slots : ShowsOnly(app.uploads[s].content)

-----------------------------------------------------------------------------
(* Properties of parseMessageAndParams *)

\* the number of positions of S that hold the character c
CountOf(message, S, c) == Cardinality({p \in S : message[p] = c})

\* the brace depth just before position p of a candidate opened at from
BraceDepthBefore(message, from, p) ==
  CountOf(message, (from + 1)..(p - 1), "{") - CountOf(message, (from + 1)..(p - 1), "}")

\* the bracket depth just after position p of a candidate opened at from: brackets count
\* where the brace depth is zero
BracketDepthAfter(message, from, p) ==
  1 + Cardinality({q \in (from + 1)..p :
                     message[q] = "[" /\ BraceDepthBefore(message, from, q) = 0})
    - Cardinality({q \in (from + 1)..p :
                     message[q] = "]" /\ BraceDepthBefore(message, from, q) = 0})

\* position p is a "]" at which the candidate's bracket depth is back at zero, with a brace
\* depth of zero
BackAtZero(message, from, p) ==
  /\ message[p] = "]"
  /\ BraceDepthBefore(message, from, p) = 0
  /\ BracketDepthAfter(message, from, p) = 0

\* the candidate opened at from closes at to: the first position where it is back at zero
ClosesAt(message, from, to) ==
  /\ BackAtZero(message, from, to)
  /\ \A p \in (from + 1)..(to - 1) : ~BackAtZero(message, from, p)

\* C39: the parameter extraction closes a candidate opened at "[" only at the "]" where its
\* bracket depth is back at zero with a brace depth of zero; a candidate whose depth is
\* never back at zero before the end of the message gives no parameter and the scan goes
\* on at the next character; the spans are recorded from left to right and do not overlap.
C39_State ==
  LET message == scan.message
      spans == scan.spans
      inSpan(p) == \E k \in 1..Len(spans) : spans[k].from <= p /\ p <= spans[k].to
  IN /\ Len(scan.extractedParams) = Len(spans)
     /\ \A k \in 1..Len(spans) :
          /\ message[spans[k].from] = "["
          /\ ClosesAt(message, spans[k].from, spans[k].to)
          /\ scan.extractedParams[k] = SubSeq(message, spans[k].from + 1, spans[k].to - 1)
          /\ spans[k].to <= scan.i
          /\ k < Len(spans) => spans[k].to < spans[k + 1].from
     /\ \A p \in 1..scan.i :
          message[p] = "[" /\ ~inSpan(p) =>
            \A to \in (p + 1)..Len(message) : ~ClosesAt(message, p, to)
C39_Step ==
  scan.at = "scan" /\ scan'.at = "scan" =>
    \/ /\ Len(scan'.spans) = Len(scan.spans) + 1
       /\ scan'.spans[Len(scan'.spans)].from = scan.i + 1
       /\ scan'.i = scan'.spans[Len(scan'.spans)].to
    \/ /\ scan'.spans = scan.spans
       /\ scan'.i = scan.i + 1
C39_SpansClosed == [](C39_State) /\ [][C39_Step]_vars

\* C39 witness: "[{]}]" is scanned: the "]" inside the braces does not close the span, the
\* last one does
C39_Witness ==
  /\ scan.message = <<"[", "{", "]", "}", "]">>
  /\ scan.i = 5
  /\ scan.spans = <<[from |-> 1, to |-> 5]>>
  /\ scan.extractedParams = <<(<<"{", "]", "}">>)>>

-----------------------------------------------------------------------------
(* Properties of the nesting depth *)

\* the number of levels of the tree under a recognition record: the record, its
\* nested_nodes, their nested_nodes, ...
RECURSIVE TreeDepth(_)
TreeDepth(r) ==
  IF "nested_nodes" \in DOMAIN r /\ r.nested_nodes # <<>>
    THEN LET ds == {TreeDepth(r.nested_nodes[x]) : x \in 1..Len(r.nested_nodes)}
         IN 1 + CHOOSE d \in ds : \A e \in ds : e <= d
    ELSE 1

\* the log, after the task's start event, of a sub-task 3 that runs inside the
\* recognition of sub-task 2, which runs inside a recognition of task 1
DeepLogProcessed ==
  /\ pc = "pass2" /\ ti = 1 /\ evIdx = 7
  /\ Len(events) = 6
  /\ events[2] = Recognition("Succeeded", 3, 301, "Inner", T0)
  /\ events[3] = RecognitionNode("Succeeded", 3, 30, "SubSub", T0)
  /\ events[4] = Recognition("Succeeded", 2, 201, "Middle", T1)
  /\ events[5] = RecognitionNode("Succeeded", 2, 20, "Sub", T1)
  /\ events[6] = Recognition("Succeeded", 1, 100, "Outer", TH)

\* C19: reconstruction preserves nesting depth: a sub-task nested inside another sub-task
\* yields a recognition tree one level deeper than the three levels (attempt, sub-task
\* summary, sub-task recognition) a single sub-task yields.
C19_DepthPreserved ==
  DeepLogProcessed =>
    /\ Len(recognitionAttempts) = 1
    /\ TreeDepth(recognitionAttempts[1]) > 3

-----------------------------------------------------------------------------
(* Properties of parseFile *)

\* line is a Tasker.Task.Starting notification of task t
StartingOf(line, t) ==
  /\ line.kind = "notify"
  /\ line.msg = "Tasker.Task.Starting"
  /\ line.hasDetails
  /\ line.details.task_id = t

\* the first of the lines 1..n of c that is a Tasker.Task.Starting notification of task t
\* (0 if there is none)
FirstStarting(c, n, t) ==
  LET S == {x \in 1..n : StartingOf(c[x], t)}
  IN IF S = {} THEN 0 ELSE CHOOSE x \in S : \A y \in S : x <= y

\* the task ids (present, not 0) the lines 1..n of c announce
StartedIds(c, n) ==
  {c[x].details.task_id : x \in {y \in 1..n : StartingOf(c[y], c[y].details.task_id)}} \ {0}

\* the owner maps are those of the first announcements among the lines 1..n of c
FirstOwners(c, n) ==
  /\ DOMAIN taskProcessMap = StartedIds(c, n)
  /\ DOMAIN taskThreadMap = StartedIds(c, n)
  /\ \A t \in StartedIds(c, n) :
       /\ getTaskProcessId(t) = c[FirstStarting(c, n, t)].processId
       /\ getTaskThreadId(t) = c[FirstStarting(c, n, t)].threadId

\* C13: within one parseFile call, getTaskProcessId(t) and getTaskThreadId(t) are the
\* process and thread id of the first Tasker.Task.Starting event seen so far with task id
\* t; a later Tasker.Task.Starting event of t from another process or thread changes
\* neither.
C13_FirstOwnerWins == fpc # "failed" => FirstOwners(content, lineNum)

\* C13 witness: the file announces task 5 from Px1/Tx1 and then from Px2/Tx2
C13_Witness ==
  /\ fpc = "idle" /\ parses = 1
  /\ Len(content) >= 2
  /\ content[1] = NotifyLine("Px1", "Tx1", TaskStarting(5, "a", "Main", T0))
  /\ content[2] = NotifyLine("Px2", "Tx2", TaskStarting(5, "a", "Main", T1))
  /\ getTaskProcessId(5) = "Px1"
  /\ getTaskThreadId(5) = "Tx1"

\* ids is strictly increasing in the order of sort()
SortedNoDuplicates(ids) ==
  \A a, b \in 1..Len(ids) : a < b => IdRank(ids[a]) < IdRank(ids[b])

\* C14: once getTasks() has returned for a parse, every id of getProcessIds() (of
\* getThreadIds()) is the owner process (thread) of a task of getTasks()'s output, and both
\* lists are sorted and free of duplicates.
C14_IdsOwnReturnedTasks ==
  (pc = "done" /\ parses > 0) =>
    /\ \A x \in 1..Len(getProcessIds) :
         \E r \in 1..Len(returned) : getTaskProcessId(returned[r].task_id) = getProcessIds[x]
    /\ \A x \in 1..Len(getThreadIds) :
         \E r \in 1..Len(returned) : getTaskThreadId(returned[r].task_id) = getThreadIds[x]
    /\ SortedNoDuplicates(getProcessIds)
    /\ SortedNoDuplicates(getThreadIds)

\* a finished parseFile call
ParseCompleted == fpc = "idle" /\ parses > 0

\* line is of the grammar, carries the marker and a msg, and its details can be read
Decodes(line) ==
  /\ line.kind = "notify"
  /\ line.msg # ""
  /\ (line.msg = "Tasker.Task.Starting" => line.hasDetails)

\* the events of the lines first..last of c, line by line
RECURSIVE DecodedEvents(_, _, _)
DecodedEvents(c, first, last) ==
  IF first > last THEN <<>>
  ELSE (IF Decodes(c[first])
          THEN <<[message |-> c[first].msg, timestamp |-> c[first].timestamp,
                  details |-> c[first].details]>>
          ELSE <<>>)
       \o DecodedEvents(c, first + 1, last)

\* the buffer a finished parseFile call left: this.events, or what getTasks() took from it
\* before clearing it
ParsedBuffer == IF pc = "done" THEN hEvents ELSE events

\* C16: whatever the chunk size, a finished parseFile call leaves in the buffer the events
\* of the lines in line order, and the owner mapping of the first announcements, as a
\* decode of the lines one by one gives them.
C16_ChunkingPreservesOrder ==
  ParseCompleted =>
    /\ ParsedBuffer = DecodedEvents(content, 1, Len(content))
    /\ FirstOwners(content, Len(content))

\* C16 witness: three lines parsed in three chunks, the first and the last of which carry
\* an event
C16_Witness ==
  /\ ParseCompleted
  /\ chunkSize = 1
  /\ Len(content) = 3
  /\ Decodes(content[1]) /\ ~Decodes(content[2]) /\ Decodes(content[3])
  /\ EventOf(content[1]) # EventOf(content[3])
  /\ events = <<EventOf(content[1]), EventOf(content[3])>>

\* the lines read when the k-th chunk is done
LinesAfterChunk(k) == IF k * chunkSize < Len(content) THEN k * chunkSize ELSE Len(content)

\* the reports made so far, when onProgress is supplied
C17_State ==
  onProgress =>
    /\ \A k \in 1..Len(reports) :
         /\ reports[k].total = Len(content)
         /\ reports[k].current = LinesAfterChunk(k)
         /\ reports[k].percentage >= 0 /\ reports[k].percentage <= 100
    /\ \A k, l \in 1..Len(reports) :
         k < l => /\ reports[k].current < reports[l].current
                  /\ reports[k].percentage <= reports[l].percentage
    /\ (fpc = "yield" => Len(reports) * chunkSize = startIdx)
    /\ (fpc = "report" => Len(reports) * chunkSize = startIdx /\ lineNum = LinesAfterChunk(Len(reports) + 1))
    /\ ParseCompleted =>
         /\ Len(reports) >= 1
         /\ LinesAfterChunk(Len(reports) - 1) < Len(content)
         /\ reports[Len(reports)].current = Len(content)
         /\ reports[Len(reports)].percentage = 100

\* a report is made when the lines of a chunk have been processed, one at a time, and no
\* report made is changed; the lines of a chunk are processed with the report of the chunk
\* before made
C17_Step ==
  (onProgress /\ parses' = parses) =>
    /\ reports' # reports =>
         /\ fpc = "report"
         /\ Len(reports') = Len(reports) + 1
         /\ \A k \in 1..Len(reports) : reports'[k] = reports[k]
         /\ reports'[Len(reports')].current = lineNum
    /\ (fpc = "report" /\ fpc' # "report") => Len(reports') = Len(reports) + 1

\* C17: with onProgress supplied, parseFile reports exactly once per chunk, after the lines
\* of the chunk are processed; total is the number of lines in every report, current is the
\* number of lines processed and strictly increasing, percentage is non-decreasing within
\* 0..100, and the last report has current = total and percentage = 100.
C17_ProgressReports == [](C17_State) /\ [][C17_Step]_vars

\* C17 witness: three lines in chunks of two, reported as 2 of 3 (67%) and 3 of 3 (100%)
C17_Witness ==
  /\ ParseCompleted
  /\ onProgress
  /\ chunkSize = 2
  /\ reports = <<[current |-> 2, total |-> 3, percentage |-> 67],
                 [current |-> 3, total |-> 3, percentage |-> 100]>>

\* the lines of a chunk are all processed: those that decode add their event, in order, the
\* others (blank, not of the grammar, without msg, raising) add nothing
C18_Step ==
  (fpc = "yield" /\ fpc' # "yield") =>
    /\ lineNum' = (IF startIdx + chunkSize < Len(content) THEN startIdx + chunkSize
                   ELSE Len(content))
    /\ fEvents' = fEvents \o DecodedEvents(content, startIdx + 1, lineNum')

\* C18: parseFile does not fail on any content: a line that is not of the grammar, or whose
\* decoding or event extraction raises, is dropped, and the lines after it are processed in
\* order.
C18_BadLinesDropped == [](fpc # "failed") /\ [][C18_Step]_vars

\* C18 witness: a file of a line not of the grammar, a start notification whose details are
\* missing (reading details.task_id raises) and the start of task 5: the parse completes
\* with the one event
C18_Witness ==
  /\ ParseCompleted
  /\ content = <<NoMatchLine,
                 NotifyNoDetails("Px1", "Tx1", "Tasker.Task.Starting", T0),
                 NotifyLine("Px1", "Tx1", TaskStarting(5, "a", "Main", T0))>>
  /\ chunkSize = ChunkSize
  /\ events = <<TaskStarting(5, "a", "Main", T0)>>
  /\ getTaskProcessId(5) = "Px1"

-----------------------------------------------------------------------------
(* Properties of a second parseFile call *)

\* what getTasks() of a parser makes of a buffer evs of starts of distinct, present task
\* ids with entries other than MaaTaskerPostStop: a running task without nodes per start
StartedTasks(evs) == [x \in 1..Len(evs) |-> NewTask(evs[x], x)]

\* the starts of evs are of pairwise different tasks
DistinctStarts(evs) ==
  \A x, y \in 1..Len(evs) :
    x # y => TaskKey(evs[x].details.uuid, evs[x].details.task_id)
               # TaskKey(evs[y].details.uuid, evs[y].details.task_id)

\* C15: after parseFile(A) and then parseFile(B) on one parser, the buffer, the owners
\* (getTaskProcessId, getTaskThreadId), getProcessIds(), getThreadIds() and what getTasks()
\* returns are those of B alone: nothing of A is left.
C15_ReparseStartsClean ==
  (ParseCompleted /\ parses = 2) =>
    /\ ParsedBuffer = DecodedEvents(content, 1, Len(content))
    /\ \A t \in {5, 6} :
         /\ getTaskProcessId(t) =
              (IF FirstStarting(content, Len(content), t) = 0 THEN "undefined"
               ELSE content[FirstStarting(content, Len(content), t)].processId)
         /\ getTaskThreadId(t) =
              (IF FirstStarting(content, Len(content), t) = 0 THEN "undefined"
               ELSE content[FirstStarting(content, Len(content), t)].threadId)
    /\ getProcessIds =
         SortedIds({content[FirstStarting(content, Len(content), t)].processId :
                      t \in StartedIds(content, Len(content))})
    /\ getThreadIds =
         SortedIds({content[FirstStarting(content, Len(content), t)].threadId :
                      t \in StartedIds(content, Len(content))})
    /\ pc = "done" =>
         LET B == DecodedEvents(content, 1, Len(content))
         IN /\ DistinctStarts(B) => returned = StartedTasks(B)
            /\ \A r \in 1..Len(returned) :
                 \E x \in 1..Len(B) :
                   /\ B[x].message = "Tasker.Task.Starting"
                   /\ returned[r].startEventIndex = x
                   /\ returned[r].task_id = B[x].details.task_id

\* C15 witness: file A started task 5 in Px1/Tx1 and task 6, and getTasks() was called;
\* file B starts task 5 in Px2/Tx2 only: task 5 is owned by Px2/Tx2 and task 6 by nobody
C15_Witness ==
  /\ ParseCompleted /\ parses = 2
  /\ pc = "parse"
  /\ hEvents = <<TaskStarting(5, "a", "Main", T0), TaskStarting(6, "b", "Main", T1)>>
  /\ Len(returned) = 2
  /\ content = <<NotifyLine("Px2", "Tx2", TaskStarting(5, "a", "Main", T1))>>
  /\ events = <<TaskStarting(5, "a", "Main", T1)>>
  /\ getTaskProcessId(5) = "Px2" /\ getTaskThreadId(5) = "Tx2"
  /\ getTaskProcessId(6) = "undefined"
  /\ getProcessIds = <<"Px2">>

=============================================================================
